---- MODULE Spec2Model ----
(***************************************************************************)
(* Model of the session state store of astrbot_plugin_immersive_control    *)
(* (src/core/data.py: SessionRecord, SessionStore).                        *)
(*                                                                         *)
(* Callers are asyncio coroutines.  A coroutine runs without interruption  *)
(* between two awaits, so every action below is one such synchronous       *)
(* segment: it starts where an await returns (lock acquired, backend read  *)
(* or write finished) and ends at the next await or at the return.  The    *)
(* wall clock (time.time()) is the variable clock; it moves only between   *)
(* segments, so all clock reads of one segment see the same value.         *)
(* Timestamps are counted in ticks, resolution ticks to the second, so     *)
(* that a fraction of a second can be told from a whole one.               *)
(***************************************************************************)
EXTENDS Integers, Sequences, FiniteSets, TLC

VARIABLES
    clock,          \* time.time(), in ticks
    resolution,     \* ticks per second
    cfg,            \* PluginConfig: the configuration snapshot of the store
    kv_states,      \* backend namespace KV_STATES: key -> serialized record
    kv_cooldowns,   \* backend namespace KV_COOLDOWNS: key -> cooldown end
    state_lock,     \* SessionStore._state_lock: holder and FIFO waiters
    cooldown_lock,  \* SessionStore._cooldown_lock: holder and FIFO waiters
    call,           \* per caller: the running call and its local variables
    returned        \* the call that returned in the last step, and its result

vars == <<clock, resolution, cfg, kv_states, kv_cooldowns, state_lock,
          cooldown_lock, call, returned>>

(***************************************************************************)
(* Bounds of the model.                                                    *)
(***************************************************************************)
MaxTime == 4

Procs == {"c1", "c2"}
Keys == {"x", "y"}
NoProc == "nobody"

(***************************************************************************)
(* Configuration (src/core/config.py).                                     *)
(***************************************************************************)
\* PluginConfig.exit_pending_ttl; 86400 s in the code, scaled to model time
exit_pending_ttl == 1

\* the fields a deployment sets, durations scaled to model time
max_concurrent_states == 1
state_duration_seconds == 2
cooldown_seconds == 2
sensitivity_level == 50
interactive_item_name == "item"

PluginConfig ==
    [max_concurrent_states |-> max_concurrent_states,
     state_duration_seconds |-> state_duration_seconds,
     cooldown_seconds |-> cooldown_seconds,
     interactive_item_name |-> interactive_item_name,
     sensitivity_level |-> sensitivity_level,
     exit_pending_ttl |-> exit_pending_ttl]

Seconds(n) == n * resolution

(***************************************************************************)
(* SessionRecord.                                                          *)
(***************************************************************************)
\* Python's None, for the numeric and the string fields of a record
NoneNum == -1
NoneStr == "None"

SessionRecord(is_active, item_name, sensitivity, end_at, activated_at, ts, reason) ==
    [is_active |-> is_active, item_name |-> item_name,
     sensitivity |-> sensitivity, end_at |-> end_at,
     activated_at |-> activated_at, ts |-> ts, reason |-> reason]

\* mutant: the duration is left out of end_at
active_no_duration(now, duration, item_name, sensitivity) ==
    SessionRecord(TRUE, item_name, sensitivity, now, now, NoneNum, NoneStr)

\* mutant: the fresh record carries an exit timestamp as well
active_with_ts(now, duration, item_name, sensitivity) ==
    SessionRecord(TRUE, item_name, sensitivity, now + Seconds(duration), now,
                  now, NoneStr)

active(now, duration, item_name, sensitivity) ==
    SessionRecord(TRUE, item_name, sensitivity, now + Seconds(duration), now,
                  NoneNum, NoneStr)

\* mutant: the item name of the replaced record is dropped
exit_pending_default_item(now, reason, item_name) ==
    SessionRecord(FALSE, "default_item", NoneNum, NoneNum, NoneNum, now, reason)

exit_pending(now, reason, item_name) ==
    SessionRecord(FALSE, item_name, NoneNum, NoneNum, NoneNum, now, reason)

\* mutant: the boundary end_at = now is not yet expired
is_expired_active_strict(rec, now) ==
    rec.is_active /\ rec.end_at # NoneNum /\ rec.end_at < now

is_expired_active(rec, now) ==
    rec.is_active /\ rec.end_at # NoneNum /\ rec.end_at <= now

\* mutant: the boundary now - ts = ttl is already expired
is_expired_exit_early(rec, now, ttl) ==
    ~rec.is_active /\ rec.ts # NoneNum /\ now - rec.ts >= Seconds(ttl)

is_expired_exit(rec, now, ttl) ==
    ~rec.is_active /\ rec.ts # NoneNum /\ now - rec.ts > Seconds(ttl)

\* the optional fields, each written only when it is not None
OptionalNum == {"sensitivity", "end_at", "activated_at", "ts"}

\* mutant: activated_at is not written
to_dict_no_activated_at(rec) ==
    LET present == {"is_active", "item_name"}
                   \cup {f \in OptionalNum \ {"activated_at"} : rec[f] # NoneNum}
                   \cup (IF rec.reason # NoneStr THEN {"reason"} ELSE {})
    IN  [f \in present |-> rec[f]]

to_dict(rec) ==
    LET present == {"is_active", "item_name"}
                   \cup {f \in OptionalNum : rec[f] # NoneNum}
                   \cup (IF rec.reason # NoneStr THEN {"reason"} ELSE {})
    IN  [f \in present |-> rec[f]]

RawGet(raw, f, default) == IF f \in DOMAIN raw THEN raw[f] ELSE default

DefaultItemName == "default_item"

\* from_dict, for a raw entry whose is_active is a bool
from_dict(raw) ==
    SessionRecord(raw["is_active"],
                  RawGet(raw, "item_name", DefaultItemName),
                  RawGet(raw, "sensitivity", NoneNum),
                  RawGet(raw, "end_at", NoneNum),
                  RawGet(raw, "activated_at", NoneNum),
                  RawGet(raw, "ts", NoneNum),
                  RawGet(raw, "reason", NoneStr))

\* from_dict returns None: is_active missing or not a bool
from_dict_is_none(raw) ==
    \/ "is_active" \notin DOMAIN raw
    \/ raw["is_active"] \notin BOOLEAN

(***************************************************************************)
(* SessionStore: backend access and cleanup.                               *)
(***************************************************************************)
_load_states(raw) ==
    [k \in {j \in DOMAIN raw : ~from_dict_is_none(raw[j])} |-> from_dict(raw[k])]

_save_states(states) == [k \in DOMAIN states |-> to_dict(states[k])]

\* mutant: the pass never reports a change
_cleanup_states_never_changed(states, now) ==
    LET kept == {k \in DOMAIN states :
                    \/ is_expired_active(states[k], now)
                    \/ ~is_expired_exit(states[k], now, cfg.exit_pending_ttl)}
    IN  [states |-> [k \in kept |->
                        IF is_expired_active(states[k], now)
                        THEN exit_pending(now, "expire", states[k].item_name)
                        ELSE states[k]],
         changed |-> FALSE]

\* mutant: an expired ACTIVE record is dropped instead of turned into an
\* EXIT_PENDING record
_cleanup_states_drops_expired(states, now) ==
    LET kept == {k \in DOMAIN states :
                    /\ ~is_expired_active(states[k], now)
                    /\ ~is_expired_exit(states[k], now, cfg.exit_pending_ttl)}
    IN  [states |-> [k \in kept |-> states[k]],
         changed |-> kept # DOMAIN states]

_cleanup_states(states, now) ==
    LET kept == {k \in DOMAIN states :
                    \/ is_expired_active(states[k], now)
                    \/ ~is_expired_exit(states[k], now, cfg.exit_pending_ttl)}
        new_states ==
            [k \in kept |->
                IF is_expired_active(states[k], now)
                THEN exit_pending(now, "expire", states[k].item_name)
                ELSE states[k]]
        changed == \E k \in DOMAIN states :
                      \/ is_expired_active(states[k], now)
                      \/ is_expired_exit(states[k], now, cfg.exit_pending_ttl)
    IN  [states |-> new_states, changed |-> changed]

\* mutant: every record counts, whatever its state
active_count_all(states) == Cardinality(DOMAIN states)

active_count(states) == Cardinality({k \in DOMAIN states : states[k].is_active})

(***************************************************************************)
(* Return values.                                                          *)
(***************************************************************************)
RetNone == [tag |-> "none"]
RetRec(rec) == [tag |-> "record", rec |-> rec]
RetBool(b) == [tag |-> "bool", ok |-> b]
RetPair(b, reason) == [tag |-> "pair", ok |-> b, reason |-> reason]
RetInt(n) == [tag |-> "int", n |-> n]

\* activate's reason strings ("并发上限" in the code)
ReasonCapacity == "capacity"
ReasonOk == "ok"

OptionalRec(states, key) ==
    IF key \in DOMAIN states THEN RetRec(states[key]) ELSE RetNone

(***************************************************************************)
(* asyncio.Lock: one holder, waiters served first come first served.       *)
(***************************************************************************)
FreeLock == [holder |-> NoProc, waiters |-> <<>>]

\* mutant: the lock is granted although another caller holds it
Acquire_held(lock, p) == [lock EXCEPT !.holder = p]

\* mutant: a caller that has to wait is served before the earlier waiters
Acquire_lifo(lock, p) ==
    IF lock.holder = NoProc
    THEN [lock EXCEPT !.holder = p]
    ELSE [lock EXCEPT !.waiters = <<p>> \o @]

Acquire(lock, p) ==
    IF lock.holder = NoProc
    THEN [lock EXCEPT !.holder = p]
    ELSE [lock EXCEPT !.waiters = Append(@, p)]

Release(lock) ==
    IF lock.waiters = <<>>
    THEN [lock EXCEPT !.holder = NoProc]
    ELSE [holder |-> Head(lock.waiters), waiters |-> Tail(lock.waiters)]

\* mutant: the release wakes no waiter
Woken_nobody(lock) == NoProc

\* the waiter that the release of lock wakes, or NoProc
Woken(lock) == IF lock.waiters = <<>> THEN NoProc ELSE Head(lock.waiters)

(***************************************************************************)
(* Callers.                                                                *)
(***************************************************************************)
NoCall ==
    [op |-> "none", key |-> "none", pc |-> "idle", states |-> <<>>,
     cds |-> <<>>, now |-> NoneNum, ret |-> RetNone]

NoEvent == [proc |-> NoProc, op |-> "none", key |-> "none", ret |-> RetNone]

\* p's call returns ret
Return(p, ret) ==
    [proc |-> p, op |-> call[p].op, key |-> call[p].key, ret |-> ret]

Idle(p) == call[p].pc = "idle"

\* p starts op on key: takes the lock and issues the backend read, or queues
Begin(p, op, key, lock) ==
    [NoCall EXCEPT !.op = op, !.key = key,
                   !.pc = IF Acquire(lock, p).holder = p THEN "load"
                                                              ELSE "wait"]

\* the call records after p's segment ends with its call record c and with
\* the release of lock: the woken waiter goes on to its backend read
AfterRelease(p, c, lock) ==
    [q \in DOMAIN call |->
        IF q = p THEN c
        ELSE IF q = Woken(lock)
             THEN [call[q] EXCEPT !.pc = CASE @ = "cd_wait" -> "cd_load"
                                           [] @ = "ce_wait" -> "ce_load"
                                           [] @ = "as_wait" -> "as_load"
                                           [] OTHER -> "load"]
        ELSE call[q]]

\* Python's states[key] = rec and del states[key] on a dict
\* mutant: a key that has a value keeps it
DictSet_keeps_existing(d, key, v) ==
    [k \in DOMAIN d \cup {key} |-> IF k \in DOMAIN d THEN d[k] ELSE v]

DictSet(d, key, v) == [k \in DOMAIN d \cup {key} |-> IF k = key THEN v ELSE d[k]]
\* mutant: the key is not deleted
DictDel_keeps(d, key) == d

DictDel(d, key) == [k \in DOMAIN d \ {key} |-> d[k]]

\* Python's int(): truncation towards zero, of a span of ticks, in seconds
IntSeconds(d) ==
    IF d >= 0 THEN d \div resolution ELSE -((-d) \div resolution)

Max(a, b) == IF a >= b THEN a ELSE b

Init ==
    /\ clock = 0
    /\ resolution = 1
    /\ cfg = PluginConfig
    /\ kv_states = <<>>
    /\ kv_cooldowns = <<>>
    /\ state_lock = FreeLock
    /\ cooldown_lock = FreeLock
    /\ call = [p \in Procs |-> NoCall]
    /\ returned = NoEvent

Tick ==
    /\ clock < MaxTime
    /\ clock' = clock + 1
    /\ returned' = NoEvent
    /\ UNCHANGED <<resolution, cfg, kv_states, kv_cooldowns, state_lock,
                   cooldown_lock, call>>

(***************************************************************************)
(* The calls of the state lock domain begin alike: async with _state_lock, *)
(* then await _load_states().                                              *)
(***************************************************************************)
CallState(p, op, key) ==
    /\ Idle(p)
    /\ call' = [call EXCEPT ![p] = Begin(p, op, key, state_lock)]
    /\ state_lock' = Acquire(state_lock, p)
    /\ returned' = NoEvent
    /\ UNCHANGED <<clock, resolution, cfg, kv_states, kv_cooldowns,
                   cooldown_lock>>

\* p's call returns ret from inside async with _state_lock
ReturnState(p, ret) ==
    /\ call' = AfterRelease(p, NoCall, state_lock)
    /\ state_lock' = Release(state_lock)
    /\ returned' = Return(p, ret)

\* p goes on to await _save_states(states), keeping the state lock
SaveStates(p, states, now, ret) ==
    /\ call' = [call EXCEPT ![p].pc = "save", ![p].states = states,
                            ![p].now = now, ![p].ret = ret]
    /\ returned' = NoEvent
    /\ UNCHANGED state_lock

\* p's await _save_states(states) finishes: the backend holds the new value
StatesSaved(p) == kv_states' = _save_states(call[p].states)

(***************************************************************************)
(* get                                                                     *)
(***************************************************************************)
Get(p, key) == CallState(p, "get", key)

GetLoaded(p) ==
    /\ call[p].op = "get" /\ call[p].pc = "load"
    /\ LET c == _cleanup_states(_load_states(kv_states), clock)
           ret == OptionalRec(c.states, call[p].key)
       IN  IF c.changed
           THEN SaveStates(p, c.states, NoneNum, ret)
           ELSE ReturnState(p, ret)
    /\ UNCHANGED <<clock, resolution, cfg, kv_states, kv_cooldowns,
                   cooldown_lock>>

GetSaved(p) ==
    /\ call[p].op = "get" /\ call[p].pc = "save"
    /\ StatesSaved(p)
    /\ ReturnState(p, call[p].ret)
    /\ UNCHANGED <<clock, resolution, cfg, kv_cooldowns, cooldown_lock>>

(***************************************************************************)
(* activate                                                                *)
(***************************************************************************)
Activate(p, key) == CallState(p, "activate", key)

\* mutant: one activation too many is let through
AtCapacity_above(states) == active_count(states) > cfg.max_concurrent_states

\* the capacity check of activate, on the cleaned-up records
AtCapacity(states) == active_count(states) >= cfg.max_concurrent_states

\* mutant: an activation during the key's cooldown is refused
ActivateLoaded_checks_cooldown(p) ==
    /\ call[p].op = "activate" /\ call[p].pc = "load"
    /\ LET c == _cleanup_states(_load_states(kv_states), clock)
           now == clock
           rec == active(clock, cfg.state_duration_seconds,
                         cfg.interactive_item_name, cfg.sensitivity_level)
       IN  IF AtCapacity(c.states)
              \/ RawGet(kv_cooldowns, call[p].key, 0) > now
           THEN ReturnState(p, RetPair(FALSE, ReasonCapacity))
           ELSE SaveStates(p, DictSet(c.states, call[p].key, rec), now,
                           RetPair(TRUE, ReasonOk))
    /\ UNCHANGED <<clock, resolution, cfg, kv_states, kv_cooldowns,
                   cooldown_lock>>

\* mutant: the key's own ACTIVE record does not count against the cap
ActivateLoaded_own_slot(p) ==
    /\ call[p].op = "activate" /\ call[p].pc = "load"
    /\ LET c == _cleanup_states(_load_states(kv_states), clock)
           now == clock
           rec == active(clock, cfg.state_duration_seconds,
                         cfg.interactive_item_name, cfg.sensitivity_level)
       IN  IF AtCapacity(DictDel(c.states, call[p].key))
           THEN ReturnState(p, RetPair(FALSE, ReasonCapacity))
           ELSE SaveStates(p, DictSet(c.states, call[p].key, rec), now,
                           RetPair(TRUE, ReasonOk))
    /\ UNCHANGED <<clock, resolution, cfg, kv_states, kv_cooldowns,
                   cooldown_lock>>

ActivateLoaded(p) ==
    /\ call[p].op = "activate" /\ call[p].pc = "load"
    /\ LET c == _cleanup_states(_load_states(kv_states), clock)
           now == clock
           rec == active(clock, cfg.state_duration_seconds,
                         cfg.interactive_item_name, cfg.sensitivity_level)
       IN  IF AtCapacity(c.states)
           THEN ReturnState(p, RetPair(FALSE, ReasonCapacity))
           ELSE SaveStates(p, DictSet(c.states, call[p].key, rec), now,
                           RetPair(TRUE, ReasonOk))
    /\ UNCHANGED <<clock, resolution, cfg, kv_states, kv_cooldowns,
                   cooldown_lock>>

\* the record is written; the state lock is released and the cooldown lock
\* is asked for
ActivateSaved(p) ==
    /\ call[p].op = "activate" /\ call[p].pc = "save"
    /\ StatesSaved(p)
    /\ call' = AfterRelease(p,
                   [call[p] EXCEPT !.states = <<>>,
                                   !.pc = IF Acquire(cooldown_lock, p).holder = p
                                          THEN "cd_load" ELSE "cd_wait"],
                   state_lock)
    /\ state_lock' = Release(state_lock)
    /\ cooldown_lock' = Acquire(cooldown_lock, p)
    /\ returned' = NoEvent
    /\ UNCHANGED <<clock, resolution, cfg, kv_cooldowns>>

\* mutant: the cooldown runs from the time of the cooldown write
ActivateCooldownsLoaded_rereads_clock(p) ==
    /\ call[p].op = "activate" /\ call[p].pc = "cd_load"
    /\ call' = [call EXCEPT
                   ![p].pc = "cd_save",
                   ![p].cds = DictSet(kv_cooldowns, call[p].key,
                                      clock + Seconds(cfg.cooldown_seconds))]
    /\ returned' = NoEvent
    /\ UNCHANGED <<clock, resolution, cfg, kv_states, kv_cooldowns, state_lock,
                   cooldown_lock>>

ActivateCooldownsLoaded(p) ==
    /\ call[p].op = "activate" /\ call[p].pc = "cd_load"
    /\ call' = [call EXCEPT
                   ![p].pc = "cd_save",
                   ![p].cds = DictSet(kv_cooldowns, call[p].key,
                                      call[p].now + Seconds(cfg.cooldown_seconds))]
    /\ returned' = NoEvent
    /\ UNCHANGED <<clock, resolution, cfg, kv_states, kv_cooldowns, state_lock,
                   cooldown_lock>>

ActivateCooldownsSaved(p) ==
    /\ call[p].op = "activate" /\ call[p].pc = "cd_save"
    /\ kv_cooldowns' = call[p].cds
    /\ call' = AfterRelease(p, NoCall, cooldown_lock)
    /\ cooldown_lock' = Release(cooldown_lock)
    /\ returned' = Return(p, call[p].ret)
    /\ UNCHANGED <<clock, resolution, cfg, kv_states, state_lock>>

(***************************************************************************)
(* deactivate                                                              *)
(***************************************************************************)
Deactivate(p, key) == CallState(p, "deactivate", key)

\* mutant: only a missing record is refused
NotActive_missing(states, key) == key \notin DOMAIN states

\* deactivate's refusal: not rec or not rec.is_active
NotActive(states, key) == key \notin DOMAIN states \/ ~states[key].is_active

\* mutant: deactivate runs the cleanup pass first, as get and activate do
DeactivateLoaded_sweeps(p) ==
    /\ call[p].op = "deactivate" /\ call[p].pc = "load"
    /\ LET c == _cleanup_states(_load_states(kv_states), clock)
           states == c.states
           key == call[p].key
       IN  IF NotActive(states, key)
           THEN IF c.changed
                THEN SaveStates(p, states, NoneNum, RetBool(FALSE))
                ELSE ReturnState(p, RetBool(FALSE))
           ELSE SaveStates(p, DictSet(states, key,
                                      exit_pending(clock, "user",
                                                   states[key].item_name)),
                           NoneNum, RetBool(TRUE))
    /\ UNCHANGED <<clock, resolution, cfg, kv_states, kv_cooldowns,
                   cooldown_lock>>

DeactivateLoaded(p) ==
    /\ call[p].op = "deactivate" /\ call[p].pc = "load"
    /\ LET states == _load_states(kv_states)
           key == call[p].key
       IN  IF NotActive(states, key)
           THEN ReturnState(p, RetBool(FALSE))
           ELSE SaveStates(p, DictSet(states, key,
                                      exit_pending(clock, "user",
                                                   states[key].item_name)),
                           NoneNum, RetBool(TRUE))
    /\ UNCHANGED <<clock, resolution, cfg, kv_states, kv_cooldowns,
                   cooldown_lock>>

DeactivateSaved(p) ==
    /\ call[p].op = "deactivate" /\ call[p].pc = "save"
    /\ StatesSaved(p)
    /\ ReturnState(p, call[p].ret)
    /\ UNCHANGED <<clock, resolution, cfg, kv_cooldowns, cooldown_lock>>

(***************************************************************************)
(* complete_exit                                                           *)
(***************************************************************************)
CompleteExit(p, key) == CallState(p, "complete_exit", key)

\* mutant: only a missing record is refused
NotExitPending_missing(states, key) == key \notin DOMAIN states

\* complete_exit's refusal: not rec or rec.is_active
NotExitPending(states, key) == key \notin DOMAIN states \/ states[key].is_active

\* mutant: complete_exit runs the cleanup pass first, as get and activate do
CompleteExitLoaded_sweeps(p) ==
    /\ call[p].op = "complete_exit" /\ call[p].pc = "load"
    /\ LET c == _cleanup_states(_load_states(kv_states), clock)
           states == c.states
           key == call[p].key
       IN  IF NotExitPending(states, key)
           THEN IF c.changed
                THEN SaveStates(p, states, NoneNum, RetNone)
                ELSE ReturnState(p, RetNone)
           ELSE SaveStates(p, DictDel(states, key), NoneNum,
                           RetRec(states[key]))
    /\ UNCHANGED <<clock, resolution, cfg, kv_states, kv_cooldowns,
                   cooldown_lock>>

CompleteExitLoaded(p) ==
    /\ call[p].op = "complete_exit" /\ call[p].pc = "load"
    /\ LET states == _load_states(kv_states)
           key == call[p].key
       IN  IF NotExitPending(states, key)
           THEN ReturnState(p, RetNone)
           ELSE SaveStates(p, DictDel(states, key), NoneNum,
                           RetRec(states[key]))
    /\ UNCHANGED <<clock, resolution, cfg, kv_states, kv_cooldowns,
                   cooldown_lock>>

CompleteExitSaved(p) ==
    /\ call[p].op = "complete_exit" /\ call[p].pc = "save"
    /\ StatesSaved(p)
    /\ ReturnState(p, call[p].ret)
    /\ UNCHANGED <<clock, resolution, cfg, kv_cooldowns, cooldown_lock>>

(***************************************************************************)
(* check_cooldown                                                          *)
(***************************************************************************)
\* mutant: the lookup queues behind the state operations
CheckCooldown_state_lock(p, key) ==
    /\ Idle(p)
    /\ call' = [call EXCEPT ![p] = Begin(p, "check_cooldown", key, state_lock)]
    /\ state_lock' = Acquire(state_lock, p)
    /\ returned' = NoEvent
    /\ UNCHANGED <<clock, resolution, cfg, kv_states, kv_cooldowns,
                   cooldown_lock>>

CheckCooldown(p, key) ==
    /\ Idle(p)
    /\ call' = [call EXCEPT ![p] = Begin(p, "check_cooldown", key, cooldown_lock)]
    /\ cooldown_lock' = Acquire(cooldown_lock, p)
    /\ returned' = NoEvent
    /\ UNCHANGED <<clock, resolution, cfg, kv_states, kv_cooldowns, state_lock>>

CheckCooldownLoaded(p) ==
    /\ call[p].op = "check_cooldown" /\ call[p].pc = "load"
    /\ LET end == RawGet(kv_cooldowns, call[p].key, 0)
       IN  returned' = Return(p, RetInt(Max(0, IntSeconds(end - clock))))
    /\ call' = AfterRelease(p, NoCall, cooldown_lock)
    /\ cooldown_lock' = Release(cooldown_lock)
    /\ UNCHANGED <<clock, resolution, cfg, kv_states, kv_cooldowns, state_lock>>

(***************************************************************************)
(* The store under any number of interleaved calls.                        *)
(***************************************************************************)
Next ==
    \/ Tick
    \/ \E p \in Procs, key \in Keys :
          \/ Get(p, key)
          \/ Activate(p, key)
          \/ Deactivate(p, key)
          \/ CompleteExit(p, key)
          \/ CheckCooldown(p, key)
    \/ \E p \in Procs :
          \/ GetLoaded(p)
          \/ GetSaved(p)
          \/ ActivateLoaded(p)
          \/ ActivateSaved(p)
          \/ ActivateCooldownsLoaded(p)
          \/ ActivateCooldownsSaved(p)
          \/ DeactivateLoaded(p)
          \/ DeactivateSaved(p)
          \/ CompleteExitLoaded(p)
          \/ CompleteExitSaved(p)
          \/ CheckCooldownLoaded(p)

Spec == Init /\ [][Next]_vars

(***************************************************************************)
(* The same store on a clock that shows half seconds: time.time() is a     *)
(* float, and check_cooldown truncates a span to whole seconds.            *)
(***************************************************************************)
InitSubSecond ==
    /\ clock = 0
    /\ resolution = 2
    /\ cfg = PluginConfig
    /\ kv_states = <<>>
    /\ kv_cooldowns = <<>>
    /\ state_lock = FreeLock
    /\ cooldown_lock = FreeLock
    /\ call = [p \in Procs |-> NoCall]
    /\ returned = NoEvent

SpecSubSecond == InitSubSecond /\ [][Next]_vars

(***************************************************************************)
(* The same store configured for two concurrent sessions, so that a key    *)
(* can be activated while it is ACTIVE itself.                             *)
(***************************************************************************)
InitTwoSessions ==
    /\ clock = 0
    /\ resolution = 1
    /\ cfg = [PluginConfig EXCEPT !.max_concurrent_states = 2]
    /\ kv_states = <<>>
    /\ kv_cooldowns = <<>>
    /\ state_lock = FreeLock
    /\ cooldown_lock = FreeLock
    /\ call = [p \in Procs |-> NoCall]
    /\ returned = NoEvent

SpecTwoSessions == InitTwoSessions /\ [][Next]_vars

(***************************************************************************)
(* The same store started on a persisted collection that holds one entry   *)
(* the store did not write: is_active true without end_at, is_active false *)
(* without ts, a mix of both shapes, or no is_active at all.               *)
(***************************************************************************)
PersistedBefore ==
    {[is_active |-> TRUE, item_name |-> interactive_item_name],
     [is_active |-> FALSE, item_name |-> interactive_item_name],
     [is_active |-> TRUE, item_name |-> interactive_item_name,
      sensitivity |-> sensitivity_level, end_at |-> MaxTime - 1,
      activated_at |-> 0, ts |-> 0, reason |-> "user"],
     [item_name |-> interactive_item_name, end_at |-> MaxTime - 1]}

InitPersisted ==
    /\ clock = MaxTime - 2
    /\ resolution = 1
    /\ cfg = PluginConfig
    /\ kv_states \in {[k \in {"x"} |-> raw] : raw \in PersistedBefore}
    /\ kv_cooldowns = <<>>
    /\ state_lock = FreeLock
    /\ cooldown_lock = FreeLock
    /\ call = [p \in Procs |-> NoCall]
    /\ returned = NoEvent

SpecPersisted == InitPersisted /\ [][Next]_vars

(***************************************************************************)
(* The same store on a backend whose reads and writes can fail.  The       *)
(* exception of get_kv_data or put_kv_data leaves the await inside         *)
(* async with, which releases the lock, and leaves the call; a write that  *)
(* failed has not changed its namespace.                                   *)
(***************************************************************************)
RetRaise == [tag |-> "raise"]

\* mutant: the lock is not released when the exception passes
RaiseState_keeps_lock(p) ==
    /\ call' = [call EXCEPT ![p] = NoCall]
    /\ state_lock' = state_lock
    /\ returned' = Return(p, RetRaise)

\* the exception leaves async with _state_lock
RaiseState(p) == ReturnState(p, RetRaise)

\* the exception leaves async with _cooldown_lock
RaiseCooldown(p) ==
    /\ call' = AfterRelease(p, NoCall, cooldown_lock)
    /\ cooldown_lock' = Release(cooldown_lock)
    /\ returned' = Return(p, RetRaise)

LoadStatesFails(p) ==
    /\ call[p].op \in {"get", "activate", "deactivate", "complete_exit"}
    /\ call[p].pc = "load"
    /\ RaiseState(p)
    /\ UNCHANGED <<clock, resolution, cfg, kv_states, kv_cooldowns,
                   cooldown_lock>>

SaveStatesFails(p) ==
    /\ call[p].op \in {"get", "activate", "deactivate", "complete_exit"}
    /\ call[p].pc = "save"
    /\ RaiseState(p)
    /\ UNCHANGED <<clock, resolution, cfg, kv_states, kv_cooldowns,
                   cooldown_lock>>

LoadCooldownsFails(p) ==
    /\ \/ call[p].op = "activate" /\ call[p].pc = "cd_load"
       \/ call[p].op = "check_cooldown" /\ call[p].pc = "load"
    /\ RaiseCooldown(p)
    /\ UNCHANGED <<clock, resolution, cfg, kv_states, kv_cooldowns, state_lock>>

SaveCooldownsFails(p) ==
    /\ call[p].op = "activate" /\ call[p].pc = "cd_save"
    /\ RaiseCooldown(p)
    /\ UNCHANGED <<clock, resolution, cfg, kv_states, kv_cooldowns, state_lock>>

NextFailing ==
    \/ Next
    \/ \E p \in Procs :
          \/ LoadStatesFails(p)
          \/ SaveStatesFails(p)
          \/ LoadCooldownsFails(p)
          \/ SaveCooldownsFails(p)

\* the store is constructed at any time of the clock
InitFailing ==
    /\ clock = MaxTime - 2
    /\ resolution = 1
    /\ cfg = PluginConfig
    /\ kv_states = <<>>
    /\ kv_cooldowns = <<>>
    /\ state_lock = FreeLock
    /\ cooldown_lock = FreeLock
    /\ call = [p \in Procs |-> NoCall]
    /\ returned = NoEvent

SpecFailing == InitFailing /\ [][NextFailing]_vars

(***************************************************************************)
(* The store under fair scheduling: the event loop runs every coroutine    *)
(* that is ready, and the backend answers every read and write, so a call  *)
(* whose await has finished takes its next step.  Nothing obliges a caller *)
(* to start a call, nor the clock to move.                                 *)
(***************************************************************************)
Proceed(p) ==
    \/ GetLoaded(p)
    \/ GetSaved(p)
    \/ ActivateLoaded(p)
    \/ ActivateSaved(p)
    \/ ActivateCooldownsLoaded(p)
    \/ ActivateCooldownsSaved(p)
    \/ DeactivateLoaded(p)
    \/ DeactivateSaved(p)
    \/ CompleteExitLoaded(p)
    \/ CompleteExitSaved(p)
    \/ CheckCooldownLoaded(p)

\* the store is constructed on a backend that an earlier run has left with
\* the record and the cooldown entry of one activation, now at its end_at
InitFair ==
    /\ clock = MaxTime - 1
    /\ resolution = 1
    /\ cfg = PluginConfig
    /\ kv_states = [k \in {"x"} |->
                       to_dict(active(MaxTime - 3, state_duration_seconds,
                                      interactive_item_name, sensitivity_level))]
    /\ kv_cooldowns = [k \in {"x"} |-> MaxTime - 3 + cooldown_seconds]
    /\ state_lock = FreeLock
    /\ cooldown_lock = FreeLock
    /\ call = [p \in Procs |-> NoCall]
    /\ returned = NoEvent

SpecFair ==
    /\ InitFair
    /\ [][Next]_vars
    /\ \A p \in Procs : WF_vars(Proceed(p))

(***************************************************************************)
(* The store constructed on a backend that an earlier run has left with an *)
(* EXIT_PENDING record of "x" that has outlived its TTL and that no access *)
(* has swept: now - ts > exit_pending_ttl from the first state on.         *)
(***************************************************************************)
StaleExit == exit_pending(0, "user", interactive_item_name)

InitStale ==
    /\ clock = MaxTime - 2
    /\ resolution = 1
    /\ cfg = PluginConfig
    /\ kv_states = [k \in {"x"} |-> to_dict(StaleExit)]
    /\ kv_cooldowns = <<>>
    /\ state_lock = FreeLock
    /\ cooldown_lock = FreeLock
    /\ call = [p \in Procs |-> NoCall]
    /\ returned = NoEvent

SpecStale == InitStale /\ [][Next]_vars

(***************************************************************************)
(* Activations racing for the cooldown lock: three callers that activate   *)
(* and look cooldowns up, and room for two ACTIVE records, so that two     *)
(* activations of one key can both be granted and wait for the cooldown    *)
(* lock behind a third caller.                                             *)
(***************************************************************************)
RaceProcs == Procs \cup {"c3"}

InitRace ==
    /\ clock = MaxTime - 2
    /\ resolution = 1
    /\ cfg = [PluginConfig EXCEPT !.max_concurrent_states = 2]
    /\ kv_states = <<>>
    /\ kv_cooldowns = <<>>
    /\ state_lock = FreeLock
    /\ cooldown_lock = FreeLock
    /\ call = [p \in RaceProcs |-> NoCall]
    /\ returned = NoEvent

NextRace ==
    \/ Tick
    \/ \E p \in RaceProcs, key \in Keys :
          \/ Activate(p, key)
          \/ CheckCooldown(p, key)
    \/ \E p \in RaceProcs :
          \/ ActivateLoaded(p)
          \/ ActivateSaved(p)
          \/ ActivateCooldownsLoaded(p)
          \/ ActivateCooldownsSaved(p)
          \/ CheckCooldownLoaded(p)

SpecRace == InitRace /\ [][NextRace]_vars

(***************************************************************************)
(* The plugin class Main keeps the same two namespaces with its own code:  *)
(* records are dicts with a "status", and its handlers are the LLM-request *)
(* hook, the message handler that activates, and the stop command.         *)
(***************************************************************************)
EXIT_PENDING_TTL == 86400

SessionStates == {"inactive", "active", "exit_pending"}

Min(a, b) == IF a <= b THEN a ELSE b

\* the integer setting of cfg, clamped to [min_val, max_val]
_cfg_int(key, min_val, max_val) == Max(min_val, Min(cfg[key], max_val))

HasStatus(states, key, status) ==
    key \in DOMAIN states /\ RawGet(states[key], "status", NoneStr) = status

_cleanup_expired_states(states, now) ==
    LET expired(k) == /\ HasStatus(states, k, "active")
                      /\ RawGet(states[k], "end_at", 0) <= now
        deleted(k) == /\ HasStatus(states, k, "exit_pending")
                      /\ now - RawGet(states[k], "ts", 0)
                             > Seconds(EXIT_PENDING_TTL)
    IN  [states |->
            [k \in {j \in DOMAIN states : ~deleted(j)} |->
                IF expired(k)
                THEN [status |-> "exit_pending", reason |-> "expire",
                      ts |-> now,
                      item_name |-> RawGet(states[k], "item_name",
                                           DefaultItemName)]
                ELSE states[k]],
         changed |-> \E k \in DOMAIN states : expired(k) \/ deleted(k)]

_cleanup_expired_cooldowns(cooldowns, now) ==
    [cds |-> [k \in {j \in DOMAIN cooldowns : cooldowns[j] > now} |->
                 cooldowns[k]],
     changed |-> \E k \in DOMAIN cooldowns : cooldowns[k] <= now]

\* what the hook leaves in req.system_prompt
RetNotice(item_name) == [tag |-> "exit_notice", item_name |-> item_name]
RetPrompt(item_name, sensitivity) ==
    [tag |-> "control_prompt", item_name |-> item_name,
     sensitivity |-> sensitivity]

ReasonCooling == "cooling"
ReasonAlreadyActive == "already_active"

\* the state get_session_state reports for key
get_session_state(states, key) ==
    IF key \notin DOMAIN states THEN "inactive"
    ELSE LET status == RawGet(states[key], "status", "inactive")
         IN  IF status \in SessionStates THEN status ELSE "inactive"

(***************************************************************************)
(* on_llm_request: get_session_state, then complete_exit for a session     *)
(* found EXIT_PENDING, then the injection.                                 *)
(***************************************************************************)
OnLlmRequest(p, key) == CallState(p, "on_llm_request", key)

\* get_session_state returns with the cleaned-up records and the hook goes
\* on: to complete_exit, which asks for the state lock again at once, or to
\* the control prompt, or to nothing
Observed(p, states) ==
    LET key == call[p].key
        current_state == get_session_state(states, key)
        released == Release(state_lock)
    IN  IF current_state = "exit_pending"
        THEN /\ call' = AfterRelease(p,
                            [call[p] EXCEPT
                                !.states = <<>>,
                                !.pc = IF Acquire(released, p).holder = p
                                       THEN "ce_load" ELSE "ce_wait"],
                            state_lock)
             /\ state_lock' = Acquire(released, p)
             /\ returned' = NoEvent
        ELSE IF current_state = "active"
        THEN ReturnState(p, RetPrompt(
                                RawGet(states[key], "item_name", DefaultItemName),
                                RawGet(states[key], "sensitivity", 50)))
        ELSE ReturnState(p, RetNone)

OnLlmRequestLoaded(p) ==
    /\ call[p].op = "on_llm_request" /\ call[p].pc = "load"
    /\ LET c == _cleanup_expired_states(kv_states, clock)
       IN  IF c.changed
           THEN SaveStates(p, c.states, NoneNum, RetNone)
           ELSE Observed(p, c.states)
    /\ UNCHANGED <<clock, resolution, cfg, kv_states, kv_cooldowns,
                   cooldown_lock>>

OnLlmRequestSaved(p) ==
    /\ call[p].op = "on_llm_request" /\ call[p].pc = "save"
    /\ kv_states' = call[p].states
    /\ Observed(p, call[p].states)
    /\ UNCHANGED <<clock, resolution, cfg, kv_cooldowns, cooldown_lock>>

\* mutant: complete_exit hands out the record and leaves it stored
OnLlmRequestExitLoaded_keeps(p) ==
    /\ call[p].op = "on_llm_request" /\ call[p].pc = "ce_load"
    /\ LET states == kv_states
           key == call[p].key
       IN  IF ~HasStatus(states, key, "exit_pending")
           THEN ReturnState(p, RetNone)
           ELSE /\ call' = [call EXCEPT
                               ![p].pc = "ce_save", ![p].states = states,
                               ![p].ret = RetNotice(RawGet(states[key],
                                              "item_name", DefaultItemName))]
                /\ returned' = NoEvent
                /\ UNCHANGED state_lock
    /\ UNCHANGED <<clock, resolution, cfg, kv_states, kv_cooldowns,
                   cooldown_lock>>

\* complete_exit after its read: nothing for a key that is not EXIT_PENDING,
\* else the record is taken out and written back
OnLlmRequestExitLoaded(p) ==
    /\ call[p].op = "on_llm_request" /\ call[p].pc = "ce_load"
    /\ LET states == kv_states
           key == call[p].key
       IN  IF ~HasStatus(states, key, "exit_pending")
           THEN ReturnState(p, RetNone)
           ELSE /\ call' = [call EXCEPT
                               ![p].pc = "ce_save",
                               ![p].states = DictDel(states, key),
                               ![p].ret = RetNotice(RawGet(states[key],
                                              "item_name", DefaultItemName))]
                /\ returned' = NoEvent
                /\ UNCHANGED state_lock
    /\ UNCHANGED <<clock, resolution, cfg, kv_states, kv_cooldowns,
                   cooldown_lock>>

\* complete_exit returns exit_data and the hook appends the notice
OnLlmRequestExitSaved(p) ==
    /\ call[p].op = "on_llm_request" /\ call[p].pc = "ce_save"
    /\ kv_states' = call[p].states
    /\ ReturnState(p, call[p].ret)
    /\ UNCHANGED <<clock, resolution, cfg, kv_cooldowns, cooldown_lock>>

(***************************************************************************)
(* message_handler for a message that triggers and is permitted:           *)
(* check_cooldown, then activate_state.                                    *)
(***************************************************************************)
MessageHandler(p, key) ==
    /\ Idle(p)
    /\ call' = [call EXCEPT ![p] = Begin(p, "message_handler", key,
                                         cooldown_lock)]
    /\ cooldown_lock' = Acquire(cooldown_lock, p)
    /\ returned' = NoEvent
    /\ UNCHANGED <<clock, resolution, cfg, kv_states, kv_cooldowns, state_lock>>

\* check_cooldown returns: the handler answers a key that is cooling down,
\* else it calls activate_state, which asks for the state lock at once
CooldownChecked(p, cooldowns) ==
    LET key == call[p].key
        now == clock
    IN  IF key \in DOMAIN cooldowns /\ now < cooldowns[key]
        THEN /\ call' = AfterRelease(p, NoCall, cooldown_lock)
             /\ cooldown_lock' = Release(cooldown_lock)
             /\ returned' = Return(p, RetPair(FALSE, ReasonCooling))
             /\ UNCHANGED state_lock
        ELSE /\ call' = AfterRelease(p,
                            [call[p] EXCEPT
                                !.cds = <<>>,
                                !.pc = IF Acquire(state_lock, p).holder = p
                                       THEN "as_load" ELSE "as_wait"],
                            cooldown_lock)
             /\ cooldown_lock' = Release(cooldown_lock)
             /\ state_lock' = Acquire(state_lock, p)
             /\ returned' = NoEvent

MessageHandlerCooldownsLoaded(p) ==
    /\ call[p].op = "message_handler" /\ call[p].pc = "load"
    /\ LET c == _cleanup_expired_cooldowns(kv_cooldowns, clock)
       IN  IF c.changed
           THEN /\ call' = [call EXCEPT ![p].pc = "cc_save", ![p].cds = c.cds]
                /\ returned' = NoEvent
                /\ UNCHANGED <<state_lock, cooldown_lock>>
           ELSE CooldownChecked(p, c.cds)
    /\ UNCHANGED <<clock, resolution, cfg, kv_states, kv_cooldowns>>

MessageHandlerCooldownsSaved(p) ==
    /\ call[p].op = "message_handler" /\ call[p].pc = "cc_save"
    /\ kv_cooldowns' = call[p].cds
    /\ CooldownChecked(p, call[p].cds)
    /\ UNCHANGED <<clock, resolution, cfg, kv_states>>

ActivateStateLoaded(p) ==
    /\ call[p].op = "message_handler" /\ call[p].pc = "as_load"
    /\ LET states == _cleanup_expired_states(kv_states, clock).states
           key == call[p].key
           now == clock
           active_count_ == Cardinality(
               {k \in DOMAIN states : HasStatus(states, k, "active")})
           rec == [status |-> "active",
                   end_at |-> now + Seconds(_cfg_int("state_duration_seconds",
                                                     10, 3600)),
                   item_name |-> cfg.interactive_item_name,
                   sensitivity |-> _cfg_int("sensitivity_level", 0, 100),
                   activated_at |-> now]
       IN  IF /\ HasStatus(states, key, "active")
              /\ IntSeconds(RawGet(states[key], "end_at", 0) - now) > 0
           THEN ReturnState(p, RetPair(FALSE, ReasonAlreadyActive))
           ELSE IF active_count_ >= _cfg_int("max_concurrent_states", 1, 100)
           THEN ReturnState(p, RetPair(FALSE, ReasonCapacity))
           ELSE /\ call' = [call EXCEPT
                               ![p].pc = "as_save",
                               ![p].states = DictSet(states, key, rec),
                               ![p].now = now,
                               ![p].ret = RetPair(TRUE, ReasonOk)]
                /\ returned' = NoEvent
                /\ UNCHANGED state_lock
    /\ UNCHANGED <<clock, resolution, cfg, kv_states, kv_cooldowns,
                   cooldown_lock>>

ActivateStateSaved(p) ==
    /\ call[p].op = "message_handler" /\ call[p].pc = "as_save"
    /\ kv_states' = call[p].states
    /\ call' = AfterRelease(p,
                   [call[p] EXCEPT !.states = <<>>,
                                   !.pc = IF Acquire(cooldown_lock, p).holder = p
                                          THEN "cd_load" ELSE "cd_wait"],
                   state_lock)
    /\ state_lock' = Release(state_lock)
    /\ cooldown_lock' = Acquire(cooldown_lock, p)
    /\ returned' = NoEvent
    /\ UNCHANGED <<clock, resolution, cfg, kv_cooldowns>>

ActivateStateCooldownsLoaded(p) ==
    /\ call[p].op = "message_handler" /\ call[p].pc = "cd_load"
    /\ call' = [call EXCEPT
                   ![p].pc = "cd_save",
                   ![p].cds = DictSet(
                       _cleanup_expired_cooldowns(kv_cooldowns, clock).cds,
                       call[p].key,
                       call[p].now
                           + Seconds(_cfg_int("cooldown_seconds", 0, 3600)))]
    /\ returned' = NoEvent
    /\ UNCHANGED <<clock, resolution, cfg, kv_states, kv_cooldowns, state_lock,
                   cooldown_lock>>

ActivateStateCooldownsSaved(p) ==
    /\ call[p].op = "message_handler" /\ call[p].pc = "cd_save"
    /\ kv_cooldowns' = call[p].cds
    /\ call' = AfterRelease(p, NoCall, cooldown_lock)
    /\ cooldown_lock' = Release(cooldown_lock)
    /\ returned' = Return(p, call[p].ret)
    /\ UNCHANGED <<clock, resolution, cfg, kv_states, state_lock>>

(***************************************************************************)
(* stop_command: deactivate_state.                                         *)
(***************************************************************************)
StopCommand(p, key) == CallState(p, "stop_command", key)

DeactivateStateLoaded(p) ==
    /\ call[p].op = "stop_command" /\ call[p].pc = "load"
    /\ LET states == kv_states
           key == call[p].key
       IN  IF ~HasStatus(states, key, "active")
           THEN ReturnState(p, RetBool(FALSE))
           ELSE SaveStates(p,
                    DictSet(states, key,
                            [status |-> "exit_pending", reason |-> "user",
                             ts |-> clock,
                             item_name |-> RawGet(states[key], "item_name",
                                                  DefaultItemName)]),
                    NoneNum, RetBool(TRUE))
    /\ UNCHANGED <<clock, resolution, cfg, kv_states, kv_cooldowns,
                   cooldown_lock>>

DeactivateStateSaved(p) ==
    /\ call[p].op = "stop_command" /\ call[p].pc = "save"
    /\ kv_states' = call[p].states
    /\ ReturnState(p, call[p].ret)
    /\ UNCHANGED <<clock, resolution, cfg, kv_cooldowns, cooldown_lock>>

(***************************************************************************)
(* Main under three concurrent handlers, on a backend that holds the       *)
(* record and the cooldown entry of an activation of "x" about to expire.  *)
(***************************************************************************)
InitMain ==
    /\ clock = MaxTime - 1
    /\ resolution = 1
    /\ cfg = PluginConfig
    /\ kv_states = [k \in {"x"} |->
                       [status |-> "active", end_at |-> MaxTime,
                        item_name |-> interactive_item_name,
                        sensitivity |-> sensitivity_level,
                        activated_at |-> MaxTime - 10]]
    /\ kv_cooldowns = [k \in {"x"} |-> MaxTime]
    /\ state_lock = FreeLock
    /\ cooldown_lock = FreeLock
    /\ call = [p \in RaceProcs |-> NoCall]
    /\ returned = NoEvent

NextMain ==
    \/ Tick
    \/ \E p \in RaceProcs, key \in Keys :
          \/ OnLlmRequest(p, key)
          \/ MessageHandler(p, key)
          \/ StopCommand(p, key)
    \/ \E p \in RaceProcs :
          \/ OnLlmRequestLoaded(p)
          \/ OnLlmRequestSaved(p)
          \/ OnLlmRequestExitLoaded(p)
          \/ OnLlmRequestExitSaved(p)
          \/ MessageHandlerCooldownsLoaded(p)
          \/ MessageHandlerCooldownsSaved(p)
          \/ ActivateStateLoaded(p)
          \/ ActivateStateSaved(p)
          \/ ActivateStateCooldownsLoaded(p)
          \/ ActivateStateCooldownsSaved(p)
          \/ DeactivateStateLoaded(p)
          \/ DeactivateStateSaved(p)

SpecMain == InitMain /\ [][NextMain]_vars

\* the handlers of Main under fair scheduling: the event loop runs every
\* ready coroutine and the backend answers every read and write
ProceedMain(p) ==
    \/ OnLlmRequestLoaded(p)
    \/ OnLlmRequestSaved(p)
    \/ OnLlmRequestExitLoaded(p)
    \/ OnLlmRequestExitSaved(p)
    \/ MessageHandlerCooldownsLoaded(p)
    \/ MessageHandlerCooldownsSaved(p)
    \/ ActivateStateLoaded(p)
    \/ ActivateStateSaved(p)
    \/ ActivateStateCooldownsLoaded(p)
    \/ ActivateStateCooldownsSaved(p)
    \/ DeactivateStateLoaded(p)
    \/ DeactivateStateSaved(p)

SpecMainFair ==
    /\ InitMain
    /\ [][NextMain]_vars
    /\ \A p \in RaceProcs : WF_vars(ProceedMain(p))

(***************************************************************************)
(* Vocabulary of the properties.                                           *)
(***************************************************************************)
\* the records of the persisted collection, as the store reads them
Stored == _load_states(kv_states)

\* the keys whose stored record is ACTIVE and not yet expired at now
UnexpiredActive(now) ==
    {k \in DOMAIN Stored : Stored[k].is_active /\ Stored[k].end_at > now}

\* the step in which p's call of op runs from the end of its backend read
\* (from the end of its backend write) to its next await or its return
Loads(p, op) ==
    call[p].op = op /\ call[p].pc = "load" /\ call'[p] # call[p]
Saves(p, op) ==
    call[p].op = op /\ call[p].pc = "save" /\ call'[p] # call[p]

\* p's call returns ret in this step
Returns(p, ret) ==
    /\ returned' = [proc |-> p, op |-> call[p].op, key |-> call[p].key,
                    ret |-> ret]
    /\ call'[p] = NoCall

\* p's call goes on to write states and will return ret
Writes(p, states, ret) ==
    /\ call'[p].pc = "save"
    /\ call'[p].states = states
    /\ call'[p].ret = ret
    /\ returned' = NoEvent

\* this step leaves both persisted namespaces as they are
StoreUnchanged == kv_states' = kv_states /\ kv_cooldowns' = kv_cooldowns

\* the write of p's call commits exactly the records it prepared, and the
\* call returns the result it prepared
Commits(p) ==
    /\ kv_states' = _save_states(call[p].states)
    /\ kv_cooldowns' = kv_cooldowns

IsExitPending(rec, reason, ts, item_name) ==
    /\ ~rec.is_active
    /\ rec.reason = reason
    /\ rec.ts = ts
    /\ rec.item_name = item_name

(***************************************************************************)
(* C1: in every reachable state, the number of records with                *)
(* is_active = true in the persisted collection is at most                 *)
(* max_concurrent_states, whatever the interleaving of the callers.        *)
(***************************************************************************)
Inv_C1_ActiveWithinCap ==
    Cardinality({k \in DOMAIN kv_states : kv_states[k].is_active})
        <= cfg.max_concurrent_states

\* the cap is reached and a concurrent activation of another key was refused
Wit_C1_RefusedAtCap ==
    /\ returned.op = "activate"
    /\ returned.ret = RetPair(FALSE, ReasonCapacity)
    /\ \E k \in DOMAIN kv_states \ {returned.key} : kv_states[k].is_active
    /\ Cardinality({k \in DOMAIN kv_states : kv_states[k].is_active})
           = cfg.max_concurrent_states

(***************************************************************************)
(* C2: activate(k) returns success only after its write, which stores for  *)
(* k an ACTIVE record with end_at - activated_at = state_duration_seconds, *)
(* and a get(k) whose cleanup pass runs before that record's end_at        *)
(* returns it, ACTIVE and with that span.                                  *)
(***************************************************************************)
Thm_C2_ActivateThenGet ==
    [][\A p \in Procs :
        LET key == call[p].key IN
        /\ (returned'.proc = p /\ returned'.op = "activate"
            /\ returned'.ret.ok) =>
              call[p].pc = "cd_save" /\ returned'.ret = RetPair(TRUE, ReasonOk)
        /\ (call[p].op = "activate" /\ call[p].pc \in {"wait", "load", "save"}
            /\ call'[p].pc \in {"cd_wait", "cd_load", "cd_save"}) =>
              Saves(p, "activate")
        /\ Saves(p, "activate") =>
              /\ key \in DOMAIN Stored'
              /\ Stored'[key].is_active
              /\ Stored'[key].activated_at = call[p].now
              /\ Stored'[key].end_at - Stored'[key].activated_at
                     = cfg.state_duration_seconds * resolution
              /\ Stored'[key].end_at > Stored'[key].activated_at
        /\ (/\ Loads(p, "get")
            /\ key \in DOMAIN Stored
            /\ Stored[key].is_active
            /\ clock < Stored[key].end_at) =>
              /\ \/ Returns(p, RetRec(Stored[key]))
                 \/ \E states \in {call'[p].states} :
                        Writes(p, states, RetRec(Stored[key]))
              /\ Stored[key].end_at - Stored[key].activated_at
                     = cfg.state_duration_seconds * resolution
    ]_vars

\* a get returned the ACTIVE record that an activation stored
Wit_C2_GetReturnsActive ==
    /\ returned.op = "get"
    /\ returned.ret.tag = "record"
    /\ returned.ret.rec.is_active
    /\ returned.ret.rec.end_at > clock
    /\ returned.key \in DOMAIN kv_states
    /\ kv_states[returned.key] = to_dict(returned.ret.rec)

(***************************************************************************)
(* C3: an activate(k) that finds max_concurrent_states records ACTIVE and  *)
(* unexpired returns (false, capacity) and writes nothing: records and     *)
(* cooldowns stay as they were, the cleanup result included.               *)
(***************************************************************************)
Thm_C3_CapacityRefusal ==
    [][\A p \in Procs :
        (/\ Loads(p, "activate")
         /\ Cardinality(UnexpiredActive(clock)) >= cfg.max_concurrent_states) =>
            /\ Returns(p, RetPair(FALSE, ReasonCapacity))
            /\ StoreUnchanged
    ]_vars

\* refused while the store holds a record the cleanup pass would have changed
Wit_C3_RefusedUnswept ==
    /\ returned.op = "activate"
    /\ returned.ret = RetPair(FALSE, ReasonCapacity)
    /\ _cleanup_states(Stored, clock).changed

(***************************************************************************)
(* C4: an activate(k) that finds fewer than max_concurrent_states records  *)
(* ACTIVE with end_at > now is granted; EXIT_PENDING records and ACTIVE    *)
(* records with end_at <= now do not count.                                *)
(***************************************************************************)
Thm_C4_OnlyUnexpiredActiveCount ==
    [][\A p \in Procs :
        (/\ Loads(p, "activate")
         /\ Cardinality(UnexpiredActive(clock)) < cfg.max_concurrent_states) =>
            /\ call'[p].pc = "save"
            /\ call'[p].ret = RetPair(TRUE, ReasonOk)
            /\ call[p].key \in DOMAIN call'[p].states
            /\ call'[p].states[call[p].key].is_active
            /\ call'[p].states[call[p].key].activated_at = clock
    ]_vars

\* an activation is granted at max = 1 while another key holds an
\* EXIT_PENDING record left by deactivate
Wit_C4_GrantedBesideExitPending ==
    \E p \in Procs :
        /\ call[p].op = "activate"
        /\ call[p].pc = "save"
        /\ cfg.max_concurrent_states = 1
        /\ \E k \in DOMAIN kv_states \ {call[p].key} :
              /\ ~kv_states[k].is_active
              /\ kv_states[k].reason = "user"

(***************************************************************************)
(* C5: deactivate(k) on a key with no record or with a record that is not  *)
(* ACTIVE returns false and leaves records and cooldowns unchanged.        *)
(***************************************************************************)
Thm_C5_FailedDeactivate ==
    [][\A p \in Procs :
        (/\ Loads(p, "deactivate")
         /\ \/ call[p].key \notin DOMAIN Stored
            \/ ~Stored[call[p].key].is_active) =>
            /\ Returns(p, RetBool(FALSE))
            /\ StoreUnchanged
    ]_vars

\* deactivate refused a key whose record is EXIT_PENDING
Wit_C5_RefusedExitPending ==
    /\ returned.op = "deactivate"
    /\ returned.ret = RetBool(FALSE)
    /\ returned.key \in DOMAIN kv_states
    /\ ~kv_states[returned.key].is_active

(***************************************************************************)
(* C6: deactivate(k) on an ACTIVE record returns true and replaces the     *)
(* record by an EXIT_PENDING record with reason user, exit timestamp now   *)
(* and the item_name of the replaced record; the records of the other keys *)
(* and the cooldowns are unchanged.                                        *)
(***************************************************************************)
Thm_C6_Deactivate ==
    [][\A p \in Procs :
        LET key == call[p].key IN
        /\ (/\ Loads(p, "deactivate")
            /\ key \in DOMAIN Stored
            /\ Stored[key].is_active) =>
              /\ \E states \in {call'[p].states} :
                     Writes(p, states, RetBool(TRUE))
              /\ StoreUnchanged
              /\ DOMAIN call'[p].states = DOMAIN Stored
              /\ IsExitPending(call'[p].states[key], "user", clock,
                               Stored[key].item_name)
              /\ \A k \in DOMAIN Stored \ {key} :
                     call'[p].states[k] = Stored[k]
        /\ Saves(p, "deactivate") =>
              /\ Returns(p, RetBool(TRUE))
              /\ kv_cooldowns' = kv_cooldowns
              /\ DOMAIN kv_states' = DOMAIN kv_states
              /\ IsExitPending(Stored'[key], "user", call[p].states[key].ts,
                               Stored[key].item_name)
              /\ kv_states'[key] = to_dict(call[p].states[key])
              /\ \A k \in DOMAIN kv_states \ {key} :
                     kv_states'[k] = kv_states[k]
    ]_vars

\* deactivate returned true and the key's record is the EXIT_PENDING record
\* it wrote, beside the record of another key
Wit_C6_Deactivated ==
    /\ returned.op = "deactivate"
    /\ returned.ret = RetBool(TRUE)
    /\ returned.key \in DOMAIN kv_states
    /\ kv_states[returned.key].reason = "user"
    /\ kv_states[returned.key].item_name = cfg.interactive_item_name
    /\ DOMAIN kv_states # {returned.key}

(***************************************************************************)
(* C7: complete_exit is exactly-once for one exit transition: a call       *)
(* returns a record only in the step that removes this very EXIT_PENDING   *)
(* record from the persisted collection, and a call that finds no record   *)
(* for the key returns nothing; so of several calls for one EXIT_PENDING   *)
(* record one returns it and the others return nothing.                    *)
(***************************************************************************)
Thm_C7_ExactlyOnce ==
    [][\A p \in Procs :
        LET key == call[p].key IN
        /\ (returned'.proc = p /\ returned'.op = "complete_exit"
            /\ returned'.ret.tag = "record") =>
              /\ key \in DOMAIN Stored
              /\ ~Stored[key].is_active
              /\ returned'.ret = RetRec(Stored[key])
              /\ key \notin DOMAIN kv_states'
        /\ (Loads(p, "complete_exit") /\ key \notin DOMAIN Stored) =>
              Returns(p, RetNone) /\ StoreUnchanged
        /\ (/\ Loads(p, "complete_exit")
            /\ key \in DOMAIN Stored
            /\ ~Stored[key].is_active) =>
              Writes(p, [k \in DOMAIN Stored \ {key} |-> Stored[k]],
                     RetRec(Stored[key]))
        /\ Saves(p, "complete_exit") => Returns(p, call[p].ret)
    ]_vars

\* one of two concurrent complete_exit calls on the same key returned the
\* record while the other was queued behind it
Wit_C7_OneOfTwo ==
    /\ returned.op = "complete_exit"
    /\ returned.ret.tag = "record"
    /\ \E q \in Procs :
          /\ call[q].op = "complete_exit"
          /\ call[q].key = returned.key
          /\ call[q].pc = "load"

(***************************************************************************)
(* C8: complete_exit(k) on a key with no record or with an ACTIVE record   *)
(* returns nothing and leaves the store unchanged.                         *)
(***************************************************************************)
Thm_C8_FailedCompleteExit ==
    [][\A p \in Procs :
        (/\ Loads(p, "complete_exit")
         /\ \/ call[p].key \notin DOMAIN Stored
            \/ Stored[call[p].key].is_active) =>
            /\ Returns(p, RetNone)
            /\ StoreUnchanged
    ]_vars

\* complete_exit returned nothing for a key whose record is ACTIVE
Wit_C8_RefusedActive ==
    /\ returned.op = "complete_exit"
    /\ returned.ret = RetNone
    /\ returned.key \in DOMAIN kv_states
    /\ kv_states[returned.key].is_active

(***************************************************************************)
(* C9, as claimed: after an activation of k that was neither deactivated   *)
(* nor re-activated, every get(k) at now >= end_at returns an EXIT_PENDING *)
(* record with reason expire and exit timestamp now.  A stored record of k *)
(* that is ACTIVE, or EXIT_PENDING with reason expire, stems from such an  *)
(* activation: deactivate would have left reason user, and a later         *)
(* activation an ACTIVE record with a later end_at.                        *)
(***************************************************************************)
Orig_C9_EveryGetAfterExpiry ==
    [][\A p \in Procs :
        LET key == call[p].key IN
        (/\ Loads(p, "get")
         /\ key \in DOMAIN Stored
         /\ \/ Stored[key].is_active /\ Stored[key].end_at <= clock
            \/ ~Stored[key].is_active /\ Stored[key].reason = "expire") =>
            LET rec == exit_pending(clock, "expire", Stored[key].item_name)
            IN  \/ Returns(p, RetRec(rec))
                \/ \E states \in {call'[p].states} :
                       Writes(p, states, RetRec(rec))
    ]_vars

(***************************************************************************)
(* C9, amended: a get(k) that finds k's stored record still ACTIVE returns *)
(* that record when now < end_at; when now >= end_at (end_at = now         *)
(* included) it returns an EXIT_PENDING record with reason expire, exit    *)
(* timestamp now and the item_name of the ACTIVE record, and writes it to  *)
(* the persisted collection before it returns.                             *)
(***************************************************************************)
Thm_C9_LazyExpiry ==
    [][\A p \in Procs :
        LET key == call[p].key IN
        /\ (/\ Loads(p, "get")
            /\ key \in DOMAIN Stored
            /\ Stored[key].is_active) =>
              IF Stored[key].end_at <= clock
              THEN /\ \E states \in {call'[p].states} :
                          Writes(p, states, RetRec(states[key]))
                   /\ IsExitPending(call'[p].states[key], "expire", clock,
                                    Stored[key].item_name)
                   /\ call'[p].states[key].end_at = NoneNum
                   /\ StoreUnchanged
              ELSE \/ Returns(p, RetRec(Stored[key]))
                   \/ \E states \in {call'[p].states} :
                          Writes(p, states, RetRec(Stored[key]))
        /\ Saves(p, "get") =>
              /\ Returns(p, call[p].ret)
              /\ Commits(p)
              /\ call[p].ret.tag = "record" =>
                    /\ key \in DOMAIN kv_states'
                    /\ kv_states'[key] = to_dict(call[p].ret.rec)
    ]_vars

\* a get returned the EXIT_PENDING record of an expiry it discovered at the
\* boundary end_at = now, and the record is persisted
Wit_C9_ExpiredAtBoundary ==
    /\ returned.op = "get"
    /\ returned.ret.tag = "record"
    /\ ~returned.ret.rec.is_active
    /\ returned.ret.rec.reason = "expire"
    /\ returned.ret.rec.ts = Seconds(cfg.state_duration_seconds)
    /\ returned.key \in DOMAIN kv_states
    /\ kv_states[returned.key] = to_dict(returned.ret.rec)

(***************************************************************************)
(* C10: a get(k) that finds k's stored record EXIT_PENDING with exit       *)
(* timestamp ts returns that record when now - ts <= exit_pending_ttl      *)
(* (now - ts = ttl included); when now - ts > exit_pending_ttl it returns  *)
(* nothing and writes the collection without k's record.  The time-to-live *)
(* runs from ts, the time the exit was recorded.                           *)
(***************************************************************************)
Thm_C10_ExitPendingTtl ==
    [][\A p \in Procs :
        LET key == call[p].key IN
        /\ (/\ Loads(p, "get")
            /\ key \in DOMAIN Stored
            /\ ~Stored[key].is_active) =>
              IF clock - Stored[key].ts <= cfg.exit_pending_ttl * resolution
              THEN \/ Returns(p, RetRec(Stored[key]))
                   \/ \E states \in {call'[p].states} :
                          /\ Writes(p, states, RetRec(Stored[key]))
                          /\ key \in DOMAIN states
                          /\ states[key] = Stored[key]
              ELSE /\ \E states \in {call'[p].states} :
                          Writes(p, states, RetNone)
                   /\ key \notin DOMAIN call'[p].states
                   /\ StoreUnchanged
        /\ (Saves(p, "get") /\ call[p].ret = RetNone) =>
              /\ Returns(p, RetNone)
              /\ Commits(p)
              /\ key \notin DOMAIN kv_states'
    ]_vars

\* a get is about to write the collection without the EXIT_PENDING record
\* of an expiry, whose time-to-live ran out counted from the sweep that
\* recorded it
Wit_C10_EvictedExpire ==
    \E p \in Procs :
        /\ call[p].op = "get"
        /\ call[p].pc = "save"
        /\ call[p].ret = RetNone
        /\ call[p].key \in DOMAIN kv_states
        /\ ~kv_states[call[p].key].is_active
        /\ kv_states[call[p].key].reason = "expire"
        /\ call[p].key \notin DOMAIN call[p].states

(***************************************************************************)
(* C11: check_cooldown(k) returns 0 when k has no cooldown entry and never *)
(* a negative value; for a cooldown entry written by an activation at time *)
(* t, ending at t + cooldown_seconds, it returns a value in                *)
(* (0, cooldown_seconds] at every time before the end and 0 from the end   *)
(* on.  A cooldown entry is only ever read at or after the time t of the   *)
(* activation that wrote it.                                               *)
(***************************************************************************)
Orig_C11_CheckCooldown ==
    [][\A p \in Procs :
        LET key == call[p].key IN
        (call[p].op = "check_cooldown" /\ call[p].pc = "load"
         /\ call'[p] # call[p]) =>
            /\ returned'.proc = p
            /\ returned'.ret.tag = "int"
            /\ returned'.ret.n >= 0
            /\ key \notin DOMAIN kv_cooldowns => returned'.ret.n = 0
            /\ key \in DOMAIN kv_cooldowns =>
                  IF clock < kv_cooldowns[key]
                  THEN /\ returned'.ret.n > 0
                       /\ returned'.ret.n <= cfg.cooldown_seconds
                  ELSE returned'.ret.n = 0
    ]_vars

(***************************************************************************)
(* C12, as claimed: no step changes a key's record from EXIT_PENDING       *)
(* directly to ACTIVE.                                                     *)
(***************************************************************************)
Orig_C12_NeverExitPendingToActive ==
    [][\A k \in Keys :
        (k \in DOMAIN Stored /\ ~Stored[k].is_active) =>
            ~(k \in DOMAIN Stored' /\ Stored'[k].is_active)
    ]_vars

(***************************************************************************)
(* C12, amended: a key's record changes from EXIT_PENDING directly to      *)
(* ACTIVE only by the write of a granted activate of that key, which puts  *)
(* the fresh ACTIVE record it prepared in the place of the pending exit;   *)
(* get, deactivate, complete_exit, check_cooldown and the cleanup pass     *)
(* never do.                                                               *)
(***************************************************************************)
Thm_C12_OnlyActivateRevives ==
    [][kv_states' # kv_states =>
        LET old == Stored
            new == Stored'
        IN
        \A k \in Keys :
            (/\ k \in DOMAIN old /\ ~old[k].is_active
             /\ k \in DOMAIN new /\ new[k].is_active) =>
                \E p \in Procs :
                    /\ Saves(p, "activate")
                    /\ call[p].key = k
                    /\ new[k] = call[p].states[k]
                    /\ new[k].activated_at = call[p].now
    ]_vars

\* a granted activation is about to overwrite the pending exit of its key
Wit_C12_PendingExitOverwritten ==
    \E p \in Procs :
        /\ call[p].op = "activate"
        /\ call[p].pc = "save"
        /\ call[p].key \in DOMAIN kv_states
        /\ ~kv_states[call[p].key].is_active
        /\ call[p].states[call[p].key].is_active

(***************************************************************************)
(* C13: an activate(k) that finds fewer than max_concurrent_states records *)
(* ACTIVE and unexpired is granted whatever k's prior record is (absent,   *)
(* ACTIVE or EXIT_PENDING): it prepares, and its write persists, for k a   *)
(* fresh ACTIVE record with activated_at = now, end_at = now + duration    *)
(* and the configured item name and sensitivity, in which nothing of the   *)
(* prior record is left.                                                   *)
(***************************************************************************)
Thm_C13_ActivateOverwrites ==
    [][\A p \in Procs :
        LET key == call[p].key
            fresh == [is_active |-> TRUE,
                      item_name |-> cfg.interactive_item_name,
                      sensitivity |-> cfg.sensitivity_level,
                      end_at |-> clock + cfg.state_duration_seconds * resolution,
                      activated_at |-> clock]
        IN
        /\ (/\ Loads(p, "activate")
            /\ Cardinality(UnexpiredActive(clock)) < cfg.max_concurrent_states) =>
              /\ \E states \in {call'[p].states} :
                     Writes(p, states, RetPair(TRUE, ReasonOk))
              /\ key \in DOMAIN call'[p].states
              /\ to_dict(call'[p].states[key]) = fresh
              /\ call'[p].now = clock
        /\ Saves(p, "activate") =>
              /\ key \in DOMAIN kv_states'
              /\ kv_states'[key] = to_dict(call[p].states[key])
              /\ DOMAIN kv_states'[key] =
                     {"is_active", "item_name", "sensitivity", "end_at",
                      "activated_at"}
              /\ kv_states'[key].activated_at = call[p].now
    ]_vars

\* an activation is granted for a key whose stored record is ACTIVE and
\* unexpired, and is about to replace it by a later one
Wit_C13_ReactivatedWhileActive ==
    \E p \in Procs :
        /\ call[p].op = "activate"
        /\ call[p].pc = "save"
        /\ call[p].key \in DOMAIN kv_states
        /\ kv_states[call[p].key].is_active
        /\ kv_states[call[p].key].end_at > call[p].now
        /\ kv_states[call[p].key].activated_at < call[p].now

(***************************************************************************)
(* The two shapes of a persisted entry.                                    *)
(***************************************************************************)
ActiveShaped(raw) ==
    /\ DOMAIN raw = {"is_active", "item_name", "sensitivity", "end_at",
                     "activated_at"}
    /\ raw.is_active = TRUE
    /\ raw.end_at >= 0 /\ raw.activated_at >= 0 /\ raw.sensitivity >= 0

ExitPendingShaped(raw) ==
    /\ DOMAIN raw = {"is_active", "item_name", "ts", "reason"}
    /\ raw.is_active = FALSE
    /\ raw.ts >= 0
    /\ raw.reason \in {"user", "expire"}

(***************************************************************************)
(* C14: every entry of the persisted collection is ACTIVE-shaped           *)
(* (is_active true; activated_at, end_at and sensitivity set; no exit      *)
(* timestamp, no reason) or EXIT_PENDING-shaped (is_active false; exit     *)
(* timestamp and a reason user or expire set; no end_at, activated_at or   *)
(* sensitivity), in every state of a store that starts empty.              *)
(***************************************************************************)
Inv_C14_Shape ==
    \A k \in DOMAIN kv_states :
        ActiveShaped(kv_states[k]) \/ ExitPendingShaped(kv_states[k])

\* the collection holds an ACTIVE-shaped entry beside an EXIT_PENDING-shaped
\* one that a cleanup pass wrote
Wit_C14_BothShapes ==
    \E j, k \in DOMAIN kv_states :
        /\ ActiveShaped(kv_states[j])
        /\ ExitPendingShaped(kv_states[k])
        /\ kv_states[k].reason = "expire"

(***************************************************************************)
(* C15: a persisted entry that has neither shape is treated as if its key  *)
(* had no record: get does not return it, deactivate and complete_exit     *)
(* refuse its key, and it does not count toward the capacity cap, so an    *)
(* activate that finds fewer than max_concurrent_states well-shaped        *)
(* unexpired ACTIVE entries is granted.                                    *)
(***************************************************************************)
Orig_C15_MalformedIsAbsent ==
    [][\A p \in Procs :
        LET key == call[p].key
            malformed == {k \in DOMAIN kv_states :
                            /\ ~ActiveShaped(kv_states[k])
                            /\ ~ExitPendingShaped(kv_states[k])}
            counted == {k \in DOMAIN kv_states :
                            /\ ActiveShaped(kv_states[k])
                            /\ kv_states[k].end_at > clock}
        IN
        /\ (Loads(p, "get") /\ key \in malformed) =>
              \/ Returns(p, RetNone)
              \/ \E states \in {call'[p].states} : Writes(p, states, RetNone)
        /\ (Loads(p, "deactivate") /\ key \in malformed) =>
              Returns(p, RetBool(FALSE))
        /\ (Loads(p, "complete_exit") /\ key \in malformed) =>
              Returns(p, RetNone)
        /\ (/\ Loads(p, "activate")
            /\ malformed # {}
            /\ Cardinality(counted) < cfg.max_concurrent_states) =>
              call'[p].pc = "save"
    ]_vars

(***************************************************************************)
(* C16, as claimed: activate(k) is never granted at a time at which k has  *)
(* a cooldown entry for which check_cooldown(k) would return a value > 0.  *)
(***************************************************************************)
Orig_C16_CooldownEnforced ==
    [][\A p \in Procs :
        LET key == call[p].key IN
        (/\ Loads(p, "activate")
         /\ key \in DOMAIN kv_cooldowns
         /\ kv_cooldowns[key] - clock >= resolution) =>
            call'[p].pc # "save"
    ]_vars

(***************************************************************************)
(* C16, amended: the store records the cooldown and does not enforce it.   *)
(* Whether activate(k) is granted depends only on the number of unexpired  *)
(* ACTIVE records, never on the cooldown entries, which the capacity check *)
(* and the write of the record leave untouched; a granted activate(k) then *)
(* sets k's cooldown entry to now + cooldown_seconds, now being the time   *)
(* of its capacity check, changes no other entry and returns (true, ok).   *)
(***************************************************************************)
Thm_C16_CooldownRecordedOnly ==
    [][\A p \in Procs :
        LET key == call[p].key IN
        /\ Loads(p, "activate") =>
              /\ call'[p].pc = "save" <=>
                     Cardinality(UnexpiredActive(clock))
                         < cfg.max_concurrent_states
              /\ kv_cooldowns' = kv_cooldowns
        /\ Saves(p, "activate") => kv_cooldowns' = kv_cooldowns
        /\ (call[p].op = "activate" /\ call[p].pc = "cd_save"
            /\ call'[p] # call[p]) =>
              /\ Returns(p, RetPair(TRUE, ReasonOk))
              /\ DOMAIN kv_cooldowns' = DOMAIN kv_cooldowns \cup {key}
              /\ kv_cooldowns'[key]
                     = call[p].now + cfg.cooldown_seconds * resolution
              /\ \A k \in DOMAIN kv_cooldowns \ {key} :
                     kv_cooldowns'[k] = kv_cooldowns[k]
              /\ kv_states' = kv_states
    ]_vars

\* an activation of a key is granted while the key's cooldown entry ends
\* in the future
Wit_C16_GrantedDuringCooldown ==
    \E p \in Procs :
        /\ call[p].op = "activate"
        /\ call[p].pc = "save"
        /\ call[p].key \in DOMAIN kv_cooldowns
        /\ kv_cooldowns[call[p].key] > call[p].now
        /\ clock = call[p].now

(***************************************************************************)
(* The state operations, and the records a call has prepared to write.     *)
(***************************************************************************)
StateOps == {"get", "activate", "deactivate", "complete_exit"}

IsActiveIn(states, k) == k \in DOMAIN states /\ states[k].is_active
IsExitPendingIn(states, k) == k \in DOMAIN states /\ ~states[k].is_active

(***************************************************************************)
(* C17: exit transitions have exactly the listed causes.  A key's record   *)
(* changes from ACTIVE to EXIT_PENDING only by deactivate of that key      *)
(* (reason user) or by the cleanup pass of a get or an activate run at a   *)
(* time now with end_at <= now (reason expire, exit timestamp now); it     *)
(* changes from EXIT_PENDING to absent only by complete_exit of that key   *)
(* or by a cleanup pass run at now with now - ts > exit_pending_ttl; and   *)
(* no step takes an ACTIVE record directly to absent.  The persisted       *)
(* collection changes only by the write a call prepared after its read,    *)
(* with no other write in between.                                         *)
(***************************************************************************)
Thm_C17_ExitCauses ==
    [][/\ kv_states' # kv_states =>
            LET old == Stored
                new == Stored'
            IN
            /\ \E p \in Procs :
                  call[p].op \in StateOps /\ Saves(p, call[p].op)
            /\ \A k \in Keys :
                /\ (IsActiveIn(old, k) /\ IsExitPendingIn(new, k)) =>
                      \E p \in Procs :
                         \/ /\ Saves(p, "deactivate") /\ call[p].key = k
                            /\ new[k].reason = "user"
                         \/ /\ Saves(p, "get") \/ Saves(p, "activate")
                            /\ new[k].reason = "expire"
                            /\ old[k].end_at <= new[k].ts
                /\ (IsExitPendingIn(old, k) /\ k \notin DOMAIN new) =>
                      \E p \in Procs :
                         \/ Saves(p, "complete_exit") /\ call[p].key = k
                         \/ /\ Saves(p, "get") \/ Saves(p, "activate")
                            /\ clock - old[k].ts
                                   > cfg.exit_pending_ttl * resolution
                /\ IsActiveIn(old, k) => k \in DOMAIN new
       /\ \A p \in Procs :
            /\ \A op \in {"get", "activate"} :
                (Loads(p, op) /\ call'[p].pc = "save") =>
                   LET old == Stored
                       new == call'[p].states
                   IN
                   \A k \in Keys \ (IF op = "activate" THEN {call[p].key}
                                                       ELSE {}) :
                      /\ (IsActiveIn(old, k) /\ IsExitPendingIn(new, k)) =>
                            /\ old[k].end_at <= clock
                            /\ new[k].reason = "expire" /\ new[k].ts = clock
                      /\ (IsExitPendingIn(old, k) /\ k \notin DOMAIN new) =>
                            clock - old[k].ts
                                > cfg.exit_pending_ttl * resolution
                      /\ IsActiveIn(old, k) => k \in DOMAIN new
            /\ (call[p].op \in StateOps /\ call[p].pc = "save") =>
                   IF Saves(p, call[p].op)
                   THEN kv_states' = _save_states(call[p].states)
                   ELSE kv_states' = kv_states
    ]_vars

\* the cleanup pass of a get is about to record the expiry of one key and
\* to evict the exit record of another, whose time-to-live ran out
Wit_C17_ExpiryAndEviction ==
    \E p \in Procs : \E j, k \in DOMAIN kv_states :
        /\ call[p].op = "get"
        /\ call[p].pc = "save"
        /\ kv_states[j].is_active
        /\ IsExitPendingIn(call[p].states, j)
        /\ call[p].states[j].reason = "expire"
        /\ ~kv_states[k].is_active
        /\ k \notin DOMAIN call[p].states

(***************************************************************************)
(* C18: get(k) runs the cleanup pass over the records of all keys.  When   *)
(* no stored record is expired it returns k's stored record (or nothing)   *)
(* and writes nothing.  When some record is expired it writes the          *)
(* collection once: every ACTIVE record with end_at <= now is replaced by  *)
(* an EXIT_PENDING record (reason expire, exit timestamp now, same         *)
(* item_name), every EXIT_PENDING record with now - ts > exit_pending_ttl  *)
(* is dropped, the entries of all other keys are persisted as they were;   *)
(* it returns k's record after the pass, which is never an ACTIVE record   *)
(* with end_at <= now nor an EXIT_PENDING record past its time-to-live.    *)
(* get never changes the cooldown entries.                                 *)
(***************************************************************************)
Thm_C18_GetFrame ==
    [][\A p \in Procs :
        LET key == call[p].key IN
        /\ Loads(p, "get") =>
              LET old == Stored
                  expired == {k \in DOMAIN old :
                                 old[k].is_active /\ old[k].end_at <= clock}
                  stale == {k \in DOMAIN old :
                               /\ ~old[k].is_active
                               /\ clock - old[k].ts
                                      > cfg.exit_pending_ttl * resolution}
              IN
              /\ StoreUnchanged
              /\ IF expired \cup stale = {}
                 THEN Returns(p, IF key \in DOMAIN old THEN RetRec(old[key])
                                                       ELSE RetNone)
                 ELSE LET new == call'[p].states IN
                      /\ Writes(p, new, IF key \in DOMAIN new
                                        THEN RetRec(new[key]) ELSE RetNone)
                      /\ DOMAIN new = DOMAIN old \ stale
                      /\ \A k \in expired :
                             /\ IsExitPending(new[k], "expire", clock,
                                              old[k].item_name)
                             /\ ExitPendingShaped(to_dict(new[k]))
                      /\ \A k \in DOMAIN old \ (expired \cup stale) :
                             new[k] = old[k]
                      /\ key \in DOMAIN new =>
                             /\ ~(new[key].is_active /\ new[key].end_at <= clock)
                             /\ ~(/\ ~new[key].is_active
                                  /\ clock - new[key].ts
                                         > cfg.exit_pending_ttl * resolution)
        /\ Saves(p, "get") =>
              /\ Returns(p, call[p].ret)
              /\ kv_cooldowns' = kv_cooldowns
              /\ DOMAIN kv_states' = DOMAIN call[p].states
              /\ \A k \in DOMAIN call[p].states :
                     IF call[p].states[k] = Stored[k]
                     THEN kv_states'[k] = kv_states[k]
                     ELSE kv_states'[k] = to_dict(call[p].states[k])
        /\ (call[p].op = "get" /\ call'[p] # call[p]) =>
              kv_cooldowns' = kv_cooldowns
    ]_vars

\* a get is about to write the collection without the stale exit record of
\* another key and to return the untouched ACTIVE record of its own key
Wit_C18_SweptOtherKey ==
    \E p \in Procs :
        /\ call[p].op = "get"
        /\ call[p].pc = "save"
        /\ call[p].key \in DOMAIN kv_states
        /\ call[p].ret = RetRec(from_dict(kv_states[call[p].key]))
        /\ call[p].ret.rec.is_active
        /\ DOMAIN kv_states # DOMAIN call[p].states

(***************************************************************************)
(* The callers inside the critical section of each lock, and the locks     *)
(* agreeing with them: a lock is held exactly by the caller inside its     *)
(* critical section, its waiters are the callers queued for it, and a free *)
(* lock has no waiter.                                                     *)
(***************************************************************************)
InStateSection(p) ==
    call[p].op \in StateOps /\ call[p].pc \in {"load", "save"}

InCooldownSection(p) ==
    \/ call[p].op = "activate" /\ call[p].pc \in {"cd_load", "cd_save"}
    \/ call[p].op = "check_cooldown" /\ call[p].pc = "load"

WaitsFor(lock, p) == \E i \in DOMAIN lock.waiters : lock.waiters[i] = p

LocksMatchCalls ==
    /\ \A p \in Procs :
          /\ state_lock.holder = p <=> InStateSection(p)
          /\ cooldown_lock.holder = p <=> InCooldownSection(p)
          /\ WaitsFor(state_lock, p) <=>
                 call[p].op \in StateOps /\ call[p].pc = "wait"
          /\ WaitsFor(cooldown_lock, p) <=>
                 \/ call[p].op = "activate" /\ call[p].pc = "cd_wait"
                 \/ call[p].op = "check_cooldown" /\ call[p].pc = "wait"
    /\ state_lock.holder = NoProc => state_lock.waiters = <<>>
    /\ cooldown_lock.holder = NoProc => cooldown_lock.waiters = <<>>

(***************************************************************************)
(* C19: a backend read or write that fails inside a store operation ends   *)
(* the call with the exception, without another backend access of that     *)
(* call (no retry); the step of the failure changes neither namespace, so  *)
(* a call that fails before or in the write of the record leaves records   *)
(* and cooldowns as they were; and the lock the call held is released: it  *)
(* passes to the first waiter, who goes on to its backend read, and after  *)
(* every step each lock is held only by a caller inside its critical       *)
(* section.                                                                *)
(***************************************************************************)
Thm_C19_FailurePropagates ==
    [][/\ LocksMatchCalls'
       /\ \A p \in Procs :
            (returned'.proc = p /\ returned'.ret = RetRaise) =>
               /\ call[p].pc \in {"load", "save", "cd_load", "cd_save"}
               /\ call'[p] = NoCall
               /\ returned'.op = call[p].op /\ returned'.key = call[p].key
               /\ StoreUnchanged
               /\ state_lock'.holder # p /\ cooldown_lock'.holder # p
               /\ \A q \in Procs \ {p} :
                     /\ (call[q].op \in StateOps /\ call[q].pc = "wait"
                         /\ InStateSection(p)
                         /\ Head(state_lock.waiters) = q) =>
                           call'[q] = [call[q] EXCEPT !.pc = "load"]
                     /\ (WaitsFor(cooldown_lock, q) /\ InCooldownSection(p)
                         /\ Head(cooldown_lock.waiters) = q) =>
                           call'[q].pc \in {"load", "cd_load"}
    ]_vars

\* an activate failed before its record was written, and the caller that
\* waited for the state lock holds it and is at its backend read
Wit_C19_WaiterRunsAfterFailure ==
    /\ returned.op = "activate"
    /\ returned.ret = RetRaise
    /\ kv_states = <<>>
    /\ kv_cooldowns = <<>>
    /\ \E q \in Procs :
          /\ state_lock.holder = q
          /\ call[q].pc = "load"

(***************************************************************************)
(* C20: after every step no caller holds the state lock and the cooldown   *)
(* lock together; each lock is held by at most one caller, and by that     *)
(* caller from its backend read to the end of its backend write; get,      *)
(* deactivate and complete_exit take the state lock only, check_cooldown   *)
(* the cooldown lock only; activate asks for the cooldown lock only in the *)
(* step in which its record is written and the state lock released.        *)
(***************************************************************************)
Thm_C20_LocksDisjoint ==
    [][/\ \A p \in Procs :
            /\ ~(state_lock'.holder = p /\ cooldown_lock'.holder = p)
            /\ ~(state_lock'.holder = p /\ WaitsFor(cooldown_lock', p))
            /\ ~(cooldown_lock'.holder = p /\ WaitsFor(state_lock', p))
            /\ state_lock'.holder = p =>
                   call'[p].op \in StateOps
            /\ cooldown_lock'.holder = p =>
                   call'[p].op \in {"activate", "check_cooldown"}
            /\ (call'[p].op \in StateOps /\ call'[p].pc \in {"load", "save"})
                   => state_lock'.holder = p
            /\ (\/ call'[p].op = "activate"
                      /\ call'[p].pc \in {"cd_load", "cd_save"}
                \/ call'[p].op = "check_cooldown" /\ call'[p].pc = "load")
                   => cooldown_lock'.holder = p
            /\ (/\ call[p].op = "activate"
                /\ call[p].pc \in {"wait", "load", "save"}
                /\ call'[p].pc \in {"cd_wait", "cd_load", "cd_save"}) =>
                   /\ call[p].pc = "save"
                   /\ kv_states' = _save_states(call[p].states)
                   /\ state_lock.holder = p
                   /\ state_lock'.holder # p
       /\ Cardinality({p \in Procs :
                         call'[p].op \in StateOps
                         /\ call'[p].pc \in {"load", "save"}}) <= 1
       /\ Cardinality({p \in Procs :
                         \/ call'[p].op = "activate"
                               /\ call'[p].pc \in {"cd_load", "cd_save"}
                         \/ call'[p].op = "check_cooldown"
                               /\ call'[p].pc = "load"}) <= 1
    ]_vars

\* the two locks are held at the same time, by two callers: one is writing
\* its cooldown entry while the other is writing records
Wit_C20_BothLocksHeldByTwo ==
    \E p, q \in Procs :
        /\ p # q
        /\ state_lock.holder = p
        /\ call[p].pc = "save"
        /\ cooldown_lock.holder = q
        /\ call[q].op = "activate"
        /\ call[q].pc = "cd_save"

(***************************************************************************)
(* C21: the two lock domains are independent.  A check_cooldown call goes  *)
(* on to its backend read at once exactly when the cooldown lock is free,  *)
(* whoever holds the state lock, and returns in its next step; a get,      *)
(* deactivate or complete_exit call goes on to its backend read at once    *)
(* exactly when the state lock is free, whoever holds the cooldown lock;   *)
(* neither kind of call touches the other lock at any step.                *)
(***************************************************************************)
Thm_C21_LockDomainsIndependent ==
    [][\A p \in Procs :
        /\ (Idle(p) /\ call'[p].op = "check_cooldown") =>
              /\ call'[p].pc = "load" <=> cooldown_lock.holder = NoProc
              /\ call'[p].pc = "wait" <=> cooldown_lock.holder # NoProc
              /\ state_lock' = state_lock
        /\ (call[p].op = "check_cooldown" /\ call[p].pc = "load"
            /\ call'[p] # call[p]) =>
              /\ returned'.proc = p /\ returned'.ret.tag = "int"
              /\ state_lock' = state_lock
        /\ (Idle(p) /\ call'[p].op \in {"get", "deactivate", "complete_exit"}) =>
              /\ call'[p].pc = "load" <=> state_lock.holder = NoProc
              /\ call'[p].pc = "wait" <=> state_lock.holder # NoProc
              /\ cooldown_lock' = cooldown_lock
        /\ (call[p].op \in {"get", "deactivate", "complete_exit"}
            /\ call'[p] # call[p] /\ call[p].pc \in {"load", "save"}) =>
              cooldown_lock' = cooldown_lock
    ]_vars

\* a check_cooldown call has returned while the other caller holds the
\* state lock, suspended in its backend write
Wit_C21_LookupBesideStateWrite ==
    /\ returned.op = "check_cooldown"
    /\ \E q \in Procs \ {returned.proc} :
          /\ state_lock.holder = q
          /\ call[q].pc = "save"
    /\ cooldown_lock = FreeLock

(***************************************************************************)
(* C22: activate writes the record of k strictly before k's cooldown       *)
(* entry: a call enters its cooldown phase only in the step that persists  *)
(* its ACTIVE record, which leaves the cooldown entries alone, and a       *)
(* cooldown entry changes only by the last step of an activate, which      *)
(* returns (true, ok).  Under fair scheduling and a backend that answers,  *)
(* every activation of k that has written its record leads to a state in   *)
(* which it has returned (true, ok) and k has the cooldown entry it wrote, *)
(* which is its activation time + cooldown_seconds.                        *)
(***************************************************************************)
Thm_C22_RecordThenCooldown ==
    /\ [][\A p \in Procs :
            LET key == call[p].key
                cd == {"cd_wait", "cd_load", "cd_save"}
            IN
            /\ (call'[p].pc \in cd /\ call[p].pc \notin cd) =>
                  /\ call[p].op = "activate" /\ call[p].pc = "save"
                  /\ key \in DOMAIN kv_states'
                  /\ kv_states'[key] = to_dict(call[p].states[key])
                  /\ kv_states'[key].is_active
                  /\ kv_states'[key].activated_at = call[p].now
                  /\ kv_cooldowns' = kv_cooldowns
            /\ (call[p].pc \in cd /\ call'[p].pc \notin cd) =>
                  /\ call[p].pc = "cd_save"
                  /\ Returns(p, RetPair(TRUE, ReasonOk))
                  /\ kv_cooldowns'
                        = [k \in DOMAIN kv_cooldowns \cup {key} |->
                              IF k = key
                              THEN call[p].now + cfg.cooldown_seconds * resolution
                              ELSE kv_cooldowns[k]]
            /\ kv_cooldowns' # kv_cooldowns =>
                  \E q \in Procs : call[q].pc = "cd_save" /\ call'[q] = NoCall
       ]_vars
    /\ \A p \in Procs :
          (call[p].op = "activate"
           /\ call[p].pc \in {"cd_wait", "cd_load", "cd_save"})
          ~> (/\ returned.proc = p
              /\ returned.op = "activate"
              /\ returned.ret = RetPair(TRUE, ReasonOk)
              /\ returned.key \in DOMAIN kv_cooldowns)

\* the record of a key is ACTIVE in the store while the activation that
\* wrote it has not yet written the key's first cooldown entry
Wit_C22_ActiveWithoutCooldown ==
    \E p \in Procs :
        /\ call[p].op = "activate"
        /\ call[p].pc \in {"cd_wait", "cd_load", "cd_save"}
        /\ call[p].key \in DOMAIN kv_states
        /\ kv_states[call[p].key].is_active
        /\ kv_states[call[p].key].activated_at = call[p].now
        /\ call[p].key \notin DOMAIN kv_cooldowns

(***************************************************************************)
(* C23, as claimed: deactivate runs the cleanup pass, so a deactivate(k)   *)
(* that finds k's record ACTIVE with end_at <= now returns false, and the  *)
(* record it leaves is EXIT_PENDING with reason expire, never user.        *)
(***************************************************************************)
Orig_C23_DeactivateSweeps ==
    [][\A p \in Procs :
        LET key == call[p].key IN
        (/\ Loads(p, "deactivate")
         /\ key \in DOMAIN Stored
         /\ Stored[key].is_active
         /\ Stored[key].end_at <= clock) =>
            /\ call'[p].pc = "save"
            /\ call'[p].ret = RetBool(FALSE)
            /\ IsExitPending(call'[p].states[key], "expire", clock,
                             Stored[key].item_name)
    ]_vars

(***************************************************************************)
(* C23, amended: deactivate runs no cleanup pass.  A deactivate(k) that    *)
(* finds k's stored record ACTIVE with end_at <= now, not yet swept by get *)
(* or activate, is granted like any other: it writes an EXIT_PENDING       *)
(* record with reason user and exit timestamp now and returns true.  The   *)
(* records of the other keys are written back as they were stored, the     *)
(* expired ones included, and a refused deactivate writes nothing.         *)
(***************************************************************************)
Thm_C23_DeactivateDoesNotSweep ==
    [][\A p \in Procs :
        LET key == call[p].key IN
        /\ (/\ Loads(p, "deactivate")
            /\ key \in DOMAIN Stored
            /\ Stored[key].is_active
            /\ Stored[key].end_at <= clock) =>
              /\ call'[p].pc = "save"
              /\ call'[p].ret = RetBool(TRUE)
              /\ IsExitPending(call'[p].states[key], "user", clock,
                               Stored[key].item_name)
        /\ Loads(p, "deactivate") =>
              \/ call'[p] = NoCall /\ returned'.ret = RetBool(FALSE)
              \/ /\ call'[p].pc = "save"
                 /\ DOMAIN call'[p].states = DOMAIN Stored
                 /\ \A k \in DOMAIN Stored \ {key} :
                        call'[p].states[k] = Stored[k]
        /\ (Saves(p, "deactivate") /\ call[p].ret = RetBool(TRUE)) =>
              /\ Returns(p, RetBool(TRUE))
              /\ Stored'[key].reason = "user"
    ]_vars

\* a deactivate was granted on a record whose end_at had passed, and is
\* about to replace it by an EXIT_PENDING record with reason user
Wit_C23_ExpiredDeactivatedAsUser ==
    \E p \in Procs :
        /\ call[p].op = "deactivate"
        /\ call[p].pc = "save"
        /\ call[p].ret = RetBool(TRUE)
        /\ call[p].key \in DOMAIN kv_states
        /\ kv_states[call[p].key].is_active
        /\ kv_states[call[p].key].end_at <= call[p].states[call[p].key].ts
        /\ call[p].states[call[p].key].reason = "user"

(***************************************************************************)
(* C24, as claimed: complete_exit(k) returns nothing for an EXIT_PENDING   *)
(* record of k with now - ts > exit_pending_ttl at the time of the call,   *)
(* whether or not a cleanup pass has swept the store since.                *)
(***************************************************************************)
Orig_C24_StaleExitNotConsumed ==
    [][\A p \in Procs :
        LET key == call[p].key IN
        (/\ Loads(p, "complete_exit")
         /\ key \in DOMAIN Stored
         /\ ~Stored[key].is_active
         /\ clock - Stored[key].ts > Seconds(cfg.exit_pending_ttl)) =>
            \/ Returns(p, RetNone)
            \/ call'[p].pc = "save" /\ call'[p].ret = RetNone
    ]_vars

(***************************************************************************)
(* C24, amended: complete_exit runs no cleanup pass.  An EXIT_PENDING      *)
(* record of k that has outlived its TTL and that no get or activate has   *)
(* swept yet is consumed like any other: complete_exit(k) removes it and   *)
(* returns it, and writes the records of the other keys back as stored.    *)
(* It returns nothing for such a record only after a cleanup pass has      *)
(* dropped it, that is when the key has no record.                         *)
(***************************************************************************)
Thm_C24_StaleExitConsumed ==
    [][\A p \in Procs :
        LET key == call[p].key IN
        /\ (/\ Loads(p, "complete_exit")
            /\ key \in DOMAIN Stored
            /\ ~Stored[key].is_active
            /\ clock - Stored[key].ts > Seconds(cfg.exit_pending_ttl)) =>
              /\ call'[p].pc = "save"
              /\ call'[p].ret = RetRec(Stored[key])
              /\ DOMAIN call'[p].states = DOMAIN Stored \ {key}
              /\ \A k \in DOMAIN Stored \ {key} :
                     call'[p].states[k] = Stored[k]
              /\ StoreUnchanged
        /\ (/\ Saves(p, "complete_exit")
            /\ call[p].ret.tag = "record") =>
              /\ Returns(p, call[p].ret)
              /\ key \notin DOMAIN kv_states'
        /\ (/\ returned'.proc = p
            /\ returned'.op = "complete_exit"
            /\ returned'.ret = RetNone) =>
              /\ call[p].pc = "load"
              /\ key \notin DOMAIN Stored \/ Stored[key].is_active
              /\ StoreUnchanged
    ]_vars

\* complete_exit returned the record that had outlived its TTL before the
\* store was constructed, and removed it
Wit_C24_StaleExitReturned ==
    /\ returned.op = "complete_exit"
    /\ returned.ret = RetRec(StaleExit)
    /\ clock - returned.ret.rec.ts > Seconds(cfg.exit_pending_ttl)
    /\ returned.key \notin DOMAIN kv_states

(***************************************************************************)
(* C25, as claimed: when exactly max_concurrent_states records are ACTIVE  *)
(* and unexpired and k's is one of them, activate(k) is granted and        *)
(* replaces k's record; a capacity refusal happens only when the grant     *)
(* would raise the ACTIVE count above max_concurrent_states.               *)
(***************************************************************************)
Orig_C25_OwnSlotReused ==
    [][\A p \in Procs :
        LET key == call[p].key IN
        /\ (/\ Loads(p, "activate")
            /\ key \in UnexpiredActive(clock)
            /\ Cardinality(UnexpiredActive(clock))
                   = cfg.max_concurrent_states) =>
              /\ call'[p].pc = "save"
              /\ call'[p].ret = RetPair(TRUE, ReasonOk)
              /\ call'[p].states[key].activated_at = clock
        /\ (/\ returned'.proc = p
            /\ returned'.op = "activate"
            /\ returned'.ret = RetPair(FALSE, ReasonCapacity)) =>
              Cardinality(UnexpiredActive(clock) \cup {key})
                  > cfg.max_concurrent_states
    ]_vars

(***************************************************************************)
(* C25, amended: the capacity check counts every ACTIVE unexpired record,  *)
(* the one of the activated key included.  When max_concurrent_states      *)
(* records are ACTIVE and unexpired and k's is one of them, activate(k)    *)
(* returns (false, capacity) and writes nothing, so k's record keeps its   *)
(* activated_at and end_at; a capacity refusal happens exactly when the    *)
(* ACTIVE unexpired count has reached max_concurrent_states, and an ACTIVE *)
(* record is replaced by a re-activation only below the cap.               *)
(***************************************************************************)
Thm_C25_OwnSlotCounts ==
    [][\A p \in Procs :
        LET key == call[p].key IN
        /\ (/\ Loads(p, "activate")
            /\ key \in UnexpiredActive(clock)
            /\ Cardinality(UnexpiredActive(clock))
                   = cfg.max_concurrent_states) =>
              /\ Returns(p, RetPair(FALSE, ReasonCapacity))
              /\ StoreUnchanged
              /\ Stored'[key] = Stored[key]
        /\ (/\ returned'.proc = p
            /\ returned'.op = "activate"
            /\ returned'.ret = RetPair(FALSE, ReasonCapacity)) =>
              /\ call[p].pc = "load"
              /\ Cardinality(UnexpiredActive(clock))
                     >= cfg.max_concurrent_states
        /\ (/\ Loads(p, "activate")
            /\ key \in UnexpiredActive(clock)
            /\ call'[p].pc = "save") =>
              Cardinality(UnexpiredActive(clock)) < cfg.max_concurrent_states
    ]_vars

\* the activation of a key whose own record is ACTIVE, unexpired and the
\* only one counted against the cap was refused, and the record is as it was
Wit_C25_OwnKeyRefused ==
    /\ returned.op = "activate"
    /\ returned.ret = RetPair(FALSE, ReasonCapacity)
    /\ returned.key \in UnexpiredActive(clock)
    /\ Cardinality(UnexpiredActive(clock)) = cfg.max_concurrent_states
    /\ UnexpiredActive(clock) = {returned.key}

\* p's activation has written its record and not yet its cooldown entry
CooldownPending(p, k) ==
    /\ call[p].op = "activate"
    /\ call[p].key = k
    /\ call[p].pc \in {"cd_wait", "cd_load", "cd_save"}

(***************************************************************************)
(* C26: the cooldown writes of concurrent granted activations of one key   *)
(* are applied in the order of their record writes.  When an activation    *)
(* writes k's cooldown end, every other granted activation of k that has   *)
(* still to write its own is a later one; k's cooldown end never gets      *)
(* smaller; and whenever no granted activation of k has its cooldown write *)
(* outstanding and k's stored record is ACTIVE, k's cooldown end is that   *)
(* record's activated_at + cooldown_seconds.                               *)
(***************************************************************************)
Thm_C26_CooldownFollowsRecord ==
    /\ [][\A p \in DOMAIN call :
            LET k == call[p].key IN
            (CooldownPending(p, k) /\ call'[p] = NoCall) =>
                /\ kv_cooldowns'[k] = call[p].now + Seconds(cfg.cooldown_seconds)
                /\ k \in DOMAIN kv_cooldowns =>
                       kv_cooldowns'[k] >= kv_cooldowns[k]
                /\ \A q \in DOMAIN call \ {p} :
                       CooldownPending(q, k) => call[q].now >= call[p].now
       ]_vars
    /\ [](\A k \in Keys :
            (/\ \A p \in DOMAIN call : ~CooldownPending(p, k)
             /\ k \in DOMAIN Stored
             /\ Stored[k].is_active) =>
                /\ k \in DOMAIN kv_cooldowns
                /\ kv_cooldowns[k]
                       = Stored[k].activated_at + Seconds(cfg.cooldown_seconds))

\* two granted activations of one key, made at different times, wait for the
\* cooldown lock behind a third caller, the earlier one first, and the stored
\* record is the later one's
Wit_C26_TwoQueuedForCooldown ==
    \E p, q \in DOMAIN call :
        /\ p # q
        /\ cooldown_lock.waiters = <<p, q>>
        /\ CooldownPending(p, call[q].key)
        /\ CooldownPending(q, call[q].key)
        /\ call[p].now < call[q].now
        /\ call[q].key \in DOMAIN Stored
        /\ Stored[call[q].key].activated_at = call[q].now

\* a caller starts a call
Starts ==
    \E p \in Procs, key \in Keys :
        \/ Get(p, key)
        \/ Activate(p, key)
        \/ Deactivate(p, key)
        \/ CompleteExit(p, key)
        \/ CheckCooldown(p, key)

\* no call is in progress and both locks are free
Quiescent ==
    /\ \A p \in Procs : Idle(p)
    /\ state_lock = FreeLock
    /\ cooldown_lock = FreeLock

(***************************************************************************)
(* C28: under fair scheduling and a backend that answers every read and    *)
(* write, every call of get, activate, deactivate, complete_exit and       *)
(* check_cooldown that has started returns, whatever the other callers do; *)
(* no lock is held or waited for when no call is in progress; and when the *)
(* callers start only finitely many calls, the store comes to rest with    *)
(* every call returned and both locks free.                                *)
(***************************************************************************)
Thm_C28_EveryCallReturns ==
    /\ \A p \in Procs : (~Idle(p)) ~> (Idle(p) /\ returned.proc = p)
    /\ []((\A p \in Procs : Idle(p)) =>
             state_lock = FreeLock /\ cooldown_lock = FreeLock)
    /\ ([]<><<Starts>>_vars) \/ <>[]Quiescent

\* a call of the state lock domain has just returned and handed the lock to
\* the caller that waited for it, which goes on to its backend read
Wit_C28_WaiterTakesOver ==
    \E p, q \in Procs :
        /\ p # q
        /\ returned.proc = p
        /\ returned.op \in {"get", "deactivate", "complete_exit"}
        /\ Idle(p)
        /\ state_lock = [holder |-> q, waiters |-> <<>>]
        /\ call[q].pc = "load"

\* p's hook has seen k EXIT_PENDING and has still to run complete_exit
AwaitsExit(p, k) ==
    /\ call[p].op = "on_llm_request"
    /\ call[p].key = k
    /\ call[p].pc \in {"ce_wait", "ce_load"}

\* p's hook returns in this step with the exit notice appended
Injects(p) ==
    /\ call[p].op = "on_llm_request"
    /\ returned'.proc = p
    /\ returned'.ret.tag = "exit_notice"

====
